---- MODULE Spec2Model ----
(***************************************************************************)
(* Verification model of the referral-system data platform:                *)
(*   - UpsertResult.merge                    (loaders/base.py)             *)
(*   - BulkDatabaseLoader.bulk_upsert        (loaders/bulk_loader.py)      *)
(*   - paginated extraction                  (extractor.py, sync DAG)      *)
(*   - EmbeddingGenerator backfill           (ml/embedding_generator.py)   *)
(*   - MatchingService scoring and matching  (ml-service/src/matching.py)  *)
(*   - the sync DAG's tasks                  (dags/bullhorn_sync_dag.py)   *)
(*   - the min_score filter and nlargest     (ml-service/src/matching.py)  *)
(*   - the upsert statement on a table       (loaders/bulk_loader.py)      *)
(* Each subsystem has its own specification; the variables of the other    *)
(* subsystems stay at their idle values.                                   *)
(***************************************************************************)
EXTENDS Integers, Sequences, FiniteSets, TLC

VARIABLES
    \* ---- UpsertResult.merge ----
    mA, mB, mC,     \* three UpsertResult operands
    mOrig,          \* the operands as they were constructed
    mRes,           \* <<results of the merges>> once applied, <<>> before
    \* ---- bulk_upsert ----
    table,          \* committed rows of the entity table (a set of rows)
    wide,           \* TRUE: one caller, long inputs; FALSE: two callers, short inputs
    pc,             \* per caller: position in bulk_upsert
    df,             \* per caller: the DataFrame passed to the call
    batch_size,     \* per caller: BulkDatabaseLoader.batch_size
    batch_num,      \* per caller: the chunk being processed
    attempt,        \* per caller: tenacity attempt number of the current chunk
    errors,         \* per caller: the exceptions _do_execute raised for the current chunk
    pending,        \* per caller: rows written by released savepoints, uncommitted
    result,         \* per caller: the running / returned UpsertResult
    cause,          \* per caller: why the call raised ("" if it did not)
    callNo,         \* per caller: number of calls started
    chunkLog,       \* per caller: outcome of every chunk of the current call
    startKeys,      \* per caller: natural keys committed when the call started
    added,          \* per caller: rows the call's commit added to the table
    \* ---- paginated extraction ----
    xpc,            \* position of the extraction call
    fn,             \* the function called
    page_size,      \* its page_size ("size" of every request)
    max_records,    \* its record limit, 0 for None; MAX_RECORDS_PER_SYNC of a stream
    start_page,     \* its start_page
    page,           \* page of the next request
    total_fetched,  \* total_fetched / total_processed
    consecutive_empty_pages,
    all_records,    \* records accumulated by the running attempt, as <<page, n>> segments
    xattempt,       \* tenacity attempt number of the function call
    fetchLog,       \* requests of the running attempt: [page, n], n = -1 for an error
    priorFetches,   \* requests issued by the earlier attempts of this call
    errorLog,       \* pages whose request raised, over all attempts of this call
    xret,           \* <<returned value>> once returned
    \* ---- embedding backfill ----
    bpc,            \* position of generate_*_embeddings
    entity,         \* "candidate" or "position"
    vector,         \* per record id: 0 while the vector column is NULL, 1 once written
    joinable,       \* per record id: its list columns hold only strings
    bf_batch_size,  \* EmbeddingGenerator.batch_size
    max_workers,    \* EmbeddingGenerator.max_workers
    selected,       \* ids returned by the SELECT of the running run
    wstate,         \* per batch of the run: state of its future
    wresult,        \* per batch: <<dict returned by the worker>>, <<>> if none
    totals,         \* total_processed, total_updated, total_errors
    order,          \* batch numbers in the order the main thread collected them
    requests,       \* embedding requests sent by the run
    writes,         \* write-back transactions committed by the run
    nullsAtStart,   \* records with a NULL vector when the run started
    lastRun,        \* <<what the previous run returned>>
    bret,           \* <<what the run returned>>
    \* ---- a second backfill run of the same entity, overlapping the first ----
    overlap,        \* TRUE when a second run may overlap the first
    opc,            \* position of the second run
    oselected,      \* ids returned by the second run's SELECT
    ostate,         \* per batch of the second run: "queued", "embedded", "done"
    resent,         \* ids sent to the embedding service while their vector was set
    overwritten,    \* ids whose vector was written while it was already set
    \* ---- MatchingService scoring functions ----
    sfn,            \* "off", or the scoring function under test
    skIn,           \* [cand, req, pref]: candidate skills, required and preferred lists
    exIn,           \* [target, months]: target level, total_months (0: none)
    locIn,          \* [target, cand]: the two locations as comma-separated segments
    ovIn,           \* [distance, skill, experience, location]: cosine distance (percent) and component scores
    sout,           \* <<score>> once the function was applied, <<>> before
    \* ---- Matching Engine ----
    mpc,            \* "off", "idle", "loop", "returned", "raised"
    mcause,         \* what raised: "positions", "query", "cast", "upsert"
    cands,          \* the ACTIVE rows of Candidate, by id
    positions,      \* the OPEN rows of Position, in the order fetch_positions returns them
    today,          \* the current month (datetime.now())
    mrun,           \* calls of find_matches so far; the timestamp of the current call
    min_score,      \* min_score of the current call
    ppos,           \* index of the position the loop is at
    all_matches,    \* the matches collected by the loop
    Match,          \* the committed rows of the Match table
    plog,           \* per processed position: vector operator used, outcome, semantic scores
    history,        \* the last two runs that returned: their data and the scores they left
    \* ---- sync DAG ----
    tstate,         \* state of each task instance of one DAG run
    try_number,     \* attempts of each task so far
    spage,          \* pages the current attempt of a stream has loaded
    stored,         \* pages of a stream that are committed to the store
    \* ---- BullhornExtractor._make_authenticated_request ----
    apc,            \* "off", "enter", "request", "reauthenticate", "resend", "returned", "error", "raised"
    bh_rest_token,  \* 0: None, otherwise the token held by the extractor
    areq,           \* the request (endpoint and params) of the call
    aattempt,       \* attempt of the caller's retry the call belongs to
    heldAtEntry,    \* bh_rest_token when the call was entered
    ctrace,         \* what the call did so far: authenticate calls and requests sent
    \* ---- BullhornTransformer.transform_consultants / transform_candidates ----
    raw_page,       \* the raw records of one page, in page order
    tdf,            \* <<rows of the DataFrame returned>>, <<>> before the call
    \* ---- BullhornExtractor._extract_content ----
    ecIn,           \* the response passed to _extract_content
    ecOut,          \* <<value returned>>, <<>> before the call
    \* ---- the filter and nlargest of compute_matches_for_position ----
    tmIn,           \* the scored candidates_df, min_score and max_matches
    tmOut,          \* <<the matches returned>>, <<>> before the call
    \* ---- the upsert statement of _build_upsert_sql on one table ----
    sqSchema,       \* the TableSchema of the statement
    sqTable,        \* the rows of the table (column -> value)
    sqClock         \* NOW(); advances with every statement

mgVars == <<mA, mB, mC, mOrig, mRes>>
upVars == <<table, wide, pc, df, batch_size, batch_num, attempt, errors, pending,
            result, cause, callNo, chunkLog, startKeys, added>>
exVars == <<xpc, fn, page_size, max_records, start_page, page, total_fetched,
            consecutive_empty_pages, all_records, xattempt, fetchLog, priorFetches, errorLog,
            xret>>
bfVars == <<bpc, entity, vector, joinable, bf_batch_size, max_workers, selected, wstate,
            wresult, totals, order, requests, writes, nullsAtStart, lastRun, bret>>
ovRun == <<overlap, opc, oselected, ostate>>
ovVars == <<ovRun, resent, overwritten>>
scVars == <<sfn, skIn, exIn, locIn, ovIn, sout>>
mtVars == <<mpc, mcause, cands, positions, today, mrun, min_score, ppos, all_matches,
           Match, plog, history>>
dgVars == <<tstate, try_number, spage, stored>>
auVars == <<apc, bh_rest_token, areq, aattempt, heldAtEntry, ctrace>>
trVars == <<raw_page, tdf>>
ecVars == <<ecIn, ecOut>>
tmVars == <<tmIn, tmOut>>
sqVars == <<sqSchema, sqTable, sqClock>>
vars == <<mgVars, upVars, exVars, bfVars, ovVars, scVars, mtVars, dgVars, auVars, trVars, ecVars, tmVars, sqVars>>
notMerge == <<upVars, exVars, bfVars, ovVars, scVars, mtVars, dgVars, auVars, trVars, ecVars, tmVars, sqVars>>
notUpsert == <<mgVars, exVars, bfVars, ovVars, scVars, mtVars, dgVars, auVars, trVars, ecVars, tmVars, sqVars>>
notExtract == <<mgVars, upVars, bfVars, ovVars, scVars, mtVars, dgVars, auVars, trVars, ecVars, tmVars, sqVars>>
notBackfill == <<mgVars, upVars, exVars, scVars, mtVars, dgVars, auVars, trVars, ecVars, tmVars, sqVars>>
notScore == <<mgVars, upVars, exVars, bfVars, ovVars, mtVars, dgVars, auVars, trVars, ecVars, tmVars, sqVars>>
notMatch == <<mgVars, upVars, exVars, bfVars, ovVars, scVars, dgVars, auVars, trVars, ecVars, tmVars, sqVars>>
notDag == <<mgVars, upVars, exVars, bfVars, ovVars, scVars, mtVars, auVars, trVars, ecVars, tmVars, sqVars>>
notAuth == <<mgVars, upVars, exVars, bfVars, ovVars, scVars, mtVars, dgVars, trVars, ecVars, tmVars, sqVars>>
notTransform == <<mgVars, upVars, exVars, bfVars, ovVars, scVars, mtVars, dgVars, auVars, ecVars, tmVars, sqVars>>
notContent == <<mgVars, upVars, exVars, bfVars, ovVars, scVars, mtVars, dgVars, auVars, trVars, tmVars, sqVars>>
notTop == <<mgVars, upVars, exVars, bfVars, ovVars, scVars, mtVars, dgVars, auVars, trVars, ecVars, sqVars>>
notSql == <<mgVars, upVars, exVars, bfVars, ovVars, scVars, mtVars, dgVars, auVars, trVars, ecVars, tmVars>>

----------------------------------------------------------------------------
(* Bounds of the model *)
MaxCount == 2       \* largest sum of the counters of a merge operand
MaxKey == 2         \* natural keys (bullhornId) are 1..MaxKey
MaxRows == 3        \* longest DataFrame of the single-caller specification
MaxBatch == 2       \* batch_size ranges over 1..MaxBatch

(* Program constants *)
max_retries == 3    \* BulkDatabaseLoader.__init__(max_retries=3)

----------------------------------------------------------------------------
(* UpsertResult (loaders/base.py) *)

UpsertResult(i, u, f, s, t) ==
    [inserted |-> i, updated |-> u, failed |-> f, skipped |-> s, total_batches |-> t]

ZeroResult == UpsertResult(0, 0, 0, 0, 0)

\* A merge that keeps self.failed instead of adding other.failed.
MergeDropsFailed(self, other) ==
    [inserted |-> self.inserted + other.inserted,
     updated |-> self.updated + other.updated,
     failed |-> self.failed,
     skipped |-> self.skipped + other.skipped,
     total_batches |-> self.total_batches + other.total_batches]

merge(self, other) ==
    [inserted |-> self.inserted + other.inserted,
     updated |-> self.updated + other.updated,
     failed |-> self.failed + other.failed,
     skipped |-> self.skipped + other.skipped,
     total_batches |-> self.total_batches + other.total_batches]

Accounted(r) == r.inserted + r.updated + r.failed + r.skipped

MergeOperands ==
    {r \in [inserted : 0..MaxCount, updated : 0..MaxCount, failed : 0..MaxCount,
            skipped : 0..MaxCount, total_batches : 0..1] : Accounted(r) <= MaxCount}

MergeInit ==
    /\ mA \in MergeOperands
    /\ mB \in MergeOperands
    /\ mC \in MergeOperands
    /\ mOrig = <<mA, mB, mC>>
    /\ mRes = <<>>

MergeIdle ==
    /\ mA = ZeroResult /\ mB = ZeroResult /\ mC = ZeroResult
    /\ mOrig = <<ZeroResult, ZeroResult, ZeroResult>>
    /\ mRes = <<>>

\* Apply merge in every grouping the monoid laws speak of.
MergeApply ==
    /\ mRes = <<>>
    /\ mRes' = <<[ab_c |-> merge(merge(mA, mB), mC),
                a_bc |-> merge(mA, merge(mB, mC)),
                ab |-> merge(mA, mB),
                ba |-> merge(mB, mA),
                a0 |-> merge(mA, ZeroResult),
                z0a |-> merge(ZeroResult, mA)]>>
    /\ UNCHANGED <<mA, mB, mC, mOrig>>
    /\ UNCHANGED notMerge

----------------------------------------------------------------------------
(* Entity mappers and schemas (loaders/mappers.py) *)

Callers == {1, 2}

\* A DataFrame row: its natural key (0: missing or empty), whether the other
\* required fields are all present, and whether to_record can serialise it
\* (json.dumps of the experience / education value).
ValidRows == {[bullhornId |-> k, required |-> TRUE, mappable |-> TRUE] : k \in 1..MaxKey}
InvalidRows == {[bullhornId |-> 0, required |-> TRUE, mappable |-> TRUE],
                [bullhornId |-> 1, required |-> FALSE, mappable |-> TRUE]}
UnmappableRows == {[bullhornId |-> 1, required |-> TRUE, mappable |-> FALSE]}
RowTypes == ValidRows \cup InvalidRows \cup UnmappableRows

SeqsUpTo(S, n) == UNION {[1..m -> S] : m \in 0..n}

\* Inputs of the single-caller and of the two-caller specification.
DataFrames(w) ==
    IF w THEN SeqsUpTo(RowTypes, MaxRows)
    ELSE SeqsUpTo(ValidRows, MaxRows - 2)
         \cup {<<r>> : r \in InvalidRows \cup UnmappableRows}

\* (a validate that tests the natural key only)
ValidateKeyOnly(row) == row.bullhornId # 0

\* EntityMapper.validate: all(row.get(f) for f in required_fields)
validate(row) == row.bullhornId # 0 /\ row.required

\* EntityMapper.to_record raises for a value json.dumps cannot serialise.
ToRecordRaises(row) == ~row.mappable

\* EntityMapper.to_record: (cuid(), row["bullhornId"], ...); the fresh cuid and
\* the payload are both identified by the tag <<caller, call, row index>>.
to_record(row, tag) == [id |-> tag, bullhornId |-> row.bullhornId, data |-> tag]

\* A schema whose conflict target is the generated id instead of the natural key.
ConflictOnId == "id"

\* TableSchema.conflict_column of CONSULTANT_/CANDIDATE_/POSITION_SCHEMA
conflict_column == "bullhornId"

----------------------------------------------------------------------------
(* BulkDatabaseLoader (loaders/bulk_loader.py) *)

Min(a, b) == IF a < b THEN a ELSE b
Max(a, b) == IF a > b THEN a ELSE b

\* _stream_batches: df.iloc[start : start + batch_size], chunk k counted from 1
ChunkFirst(bsz, k) == (k - 1) * bsz + 1
ChunkLast(d, bsz, k) == Min(k * bsz, Len(d))
NumChunks(d, bsz) == (Len(d) + bsz - 1) \div bsz
ChunkOf(bsz, i) == (i - 1) \div bsz + 1

ChunkIdx(d, bsz, k) == [j \in 1..(ChunkLast(d, bsz, k) - ChunkFirst(bsz, k) + 1) |-> ChunkFirst(bsz, k) + j - 1]

\* bulk_upsert lines 137-144: the indices of the rows of chunk k that pass validate
RecordIdx(d, bsz, k) == SelectSeq(ChunkIdx(d, bsz, k), LAMBDA i : validate(d[i]))
SkippedIn(d, bsz, k) == Len(ChunkIdx(d, bsz, k)) - Len(RecordIdx(d, bsz, k))
MappingRaises(d, bsz, k) ==
    \E j \in 1..Len(ChunkIdx(d, bsz, k)) :
        LET row == d[ChunkIdx(d, bsz, k)[j]] IN validate(row) /\ ToRecordRaises(row)

Range(s) == {s[j] : j \in 1..Len(s)}

\* What the transaction of caller c sees: committed rows overlaid by its own writes.
View(tbl, pend) == {r \in tbl : r.id \notin {p.id : p \in pend}} \cup pend

\* INSERT ... ON CONFLICT (conflict_column) DO UPDATE SET update_columns = EXCLUDED...
\* for one record: the rows of the view the record conflicts with.
Conflicting(view, rec) == {r \in view : r[conflict_column] = rec[conflict_column]}

\* _build_upsert_sql + execute_values over the records (indices idx, in order):
\* the transaction's uncommitted rows afterwards.
\* The tag of row i of call who = <<caller, call number>>.
Tag(who, i) == <<who[1], who[2], i>>

RECURSIVE UpsertRows(_, _, _, _, _)
UpsertRows(tbl, pend, d, idx, who) ==
    IF idx = <<>> THEN pend
    ELSE LET rec == to_record(d[Head(idx)], Tag(who, Head(idx)))
             hit == Conflicting(View(tbl, pend), rec)
             new == IF hit = {} THEN {rec}
                    ELSE {[r EXCEPT !.data = rec.data] : r \in hit}
         IN UpsertRows(tbl, {p \in pend : p.id \notin {r.id : r \in hit}} \cup new,
                       d, Tail(idx), who)

\* RETURNING xmax: one row per record, 0 for a fresh tuple, the updating
\* transaction's id (non-zero) otherwise. The cursor is a RealDictCursor
\* (utils/database.py:45), so each returned row is a mapping {"xmax": value}.
RECURSIVE ReturningXmax(_, _, _, _, _)
ReturningXmax(tbl, pend, d, idx, who) ==
    IF idx = <<>> THEN <<>>
    ELSE LET rec == to_record(d[Head(idx)], Tag(who, Head(idx)))
             hit == Conflicting(View(tbl, pend), rec)
         IN <<[xmax |-> IF hit = {} THEN 0 ELSE 1]>>
            \o ReturningXmax(tbl, UpsertRows(tbl, pend, d, <<Head(idx)>>, who),
                             d, Tail(idx), who)

\* Python values, tagged by type.
PyInt(n) == [type |-> "int", val |-> n]
PyStr(s) == [type |-> "str", str |-> s]
PyEqualsInt(v, n) == v.type = "int" /\ v.val = n

\* "for (flag,) in status_flags": unpacking a one-column mapping row binds its
\* key (iteration over a dict yields keys), unpacking a tuple row its value.
UnpackSingle(row) == PyStr(CHOOSE k \in DOMAIN row : TRUE)

\* _parse_xmax_flags
ParseXmaxFlags(status_flags) ==
    LET inserted == Cardinality({j \in 1..Len(status_flags) :
                                    PyEqualsInt(UnpackSingle(status_flags[j]), 0)})
    IN <<inserted, Len(status_flags) - inserted>>

\* ROLLBACK TO SAVEPOINT skipped: the failed attempt's writes stay.
NoRollback(dirty, savepoint) == dirty

\* _do_execute, except branch: ROLLBACK TO SAVEPOINT restores the state at SAVEPOINT
RollbackToSavepoint(dirty, savepoint) == savepoint

\* (a context manager that commits in its except branch)
CommitOnError(tbl, pend) == View(tbl, pend)

\* get_cursor, except branch: conn.rollback() discards the transaction's
\* writes; the committed rows stay as they are.
rollback(tbl, pend) == tbl

\* The failure branch forgets the rows that were skipped in the chunk.
FailedForgetsSkipped(nrecords, skipped) == UpsertResult(0, 0, nrecords, 0, 0)

\* bulk_upsert line 184
FailedBatchResult(nrecords, skipped) == UpsertResult(0, 0, nrecords, skipped, 0)

\* (a success branch that leaves total_batches at its default)
OkBatchUncounted(inserted, updated, skipped) == UpsertResult(inserted, updated, 0, skipped, 0)

\* bulk_upsert lines 161-166
OkBatchResult(inserted, updated, skipped) == UpsertResult(inserted, updated, 0, skipped, 1)

----------------------------------------------------------------------------
(* bulk_upsert as a process per caller; each caller owns one connection *)

SeedRow(k) == [id |-> <<0, 0, k>>, bullhornId |-> k, data |-> <<0, 0, k>>]
\* Tables the program can start from: empty, or holding an earlier sync's row.
InitTables(w) == IF w THEN {{}, {SeedRow(1)}} ELSE {{SeedRow(1)}}

\* The first caller of the two-caller specification calls twice.
CallsAllowed(c) == IF ~wide /\ c = 1 THEN 2 ELSE 1

UpInit(w) ==
    /\ wide = w
    /\ table \in InitTables(w)
    /\ pc = [c \in Callers |-> IF w /\ c # 1 THEN "off" ELSE "idle"]
    /\ df = [c \in Callers |-> <<>>]
    /\ batch_size = [c \in Callers |-> 1]
    /\ batch_num = [c \in Callers |-> 0]
    /\ attempt = [c \in Callers |-> 0]
    /\ errors = [c \in Callers |-> <<>>]
    /\ pending = [c \in Callers |-> {}]
    /\ result = [c \in Callers |-> ZeroResult]
    /\ cause = [c \in Callers |-> ""]
    /\ callNo = [c \in Callers |-> 0]
    /\ chunkLog = [c \in Callers |-> <<>>]
    /\ startKeys = [c \in Callers |-> {}]
    /\ added = [c \in Callers |-> 0]

UpIdle ==
    /\ wide = FALSE
    /\ table = {}
    /\ pc = [c \in Callers |-> "off"]
    /\ df = [c \in Callers |-> <<>>]
    /\ batch_size = [c \in Callers |-> 1]
    /\ batch_num = [c \in Callers |-> 0]
    /\ attempt = [c \in Callers |-> 0]
    /\ errors = [c \in Callers |-> <<>>]
    /\ pending = [c \in Callers |-> {}]
    /\ result = [c \in Callers |-> ZeroResult]
    /\ cause = [c \in Callers |-> ""]
    /\ callNo = [c \in Callers |-> 0]
    /\ chunkLog = [c \in Callers |-> <<>>]
    /\ startKeys = [c \in Callers |-> {}]
    /\ added = [c \in Callers |-> 0]

Who(c) == <<c, callNo[c]>>
CurIdx(c) == RecordIdx(df[c], batch_size[c], batch_num[c])
CurSkipped(c) == SkippedIn(df[c], batch_size[c], batch_num[c])
KeysOf(c, idx) == {df[c][i].bullhornId : i \in Range(idx)}

\* Natural keys another open transaction has written and not yet committed:
\* a statement touching one of them waits for that transaction.
LockedByOthers(c) ==
    {p.bullhornId : p \in UNION {pending[o] : o \in Callers \ {c}}}

\* The loop of line 136 moves to the next chunk, or leaves the with block (commit).
NextChunk(c) ==
    IF batch_num[c] = NumChunks(df[c], batch_size[c])
    THEN /\ pc' = [pc EXCEPT ![c] = "commit"]
         /\ UNCHANGED batch_num
    ELSE /\ pc' = [pc EXCEPT ![c] = "chunk"]
         /\ batch_num' = [batch_num EXCEPT ![c] = @ + 1]

\* The inputs of the next call of caller c: any DataFrame for its first call,
\* the same DataFrame again (the input re-applied) for a later one. A batch_size
\* above the length of the input behaves as one equal to it.
Inputs(c) == IF callNo[c] = 0 THEN DataFrames(wide) ELSE {df[c]}

\* bulk_upsert lines 126-135: the call starts; an empty df returns at once,
\* otherwise db.get_cursor() connects (psycopg2.connect may raise).
Call(c) ==
    /\ pc[c] \in {"idle", "returned", "raised"}
    /\ callNo[c] < CallsAllowed(c)
    /\ \E d \in Inputs(c), b \in 1..MaxBatch, connected \in BOOLEAN :
        /\ b <= Max(1, Len(d))
        /\ callNo[c] > 0 => b = batch_size[c]
        /\ d = <<>> => connected
        /\ df' = [df EXCEPT ![c] = d]
        /\ batch_size' = [batch_size EXCEPT ![c] = b]
        /\ callNo' = [callNo EXCEPT ![c] = @ + 1]
        /\ result' = [result EXCEPT ![c] = ZeroResult]
        /\ chunkLog' = [chunkLog EXCEPT ![c] = <<>>]
        /\ pending' = [pending EXCEPT ![c] = {}]
        /\ attempt' = [attempt EXCEPT ![c] = 0]
        /\ startKeys' = [startKeys EXCEPT ![c] = {r.bullhornId : r \in table}]
        /\ added' = [added EXCEPT ![c] = 0]
        /\ pc' = [pc EXCEPT ![c] = IF d = <<>> THEN "returned"
                                   ELSE IF connected THEN "chunk" ELSE "raised"]
        /\ cause' = [cause EXCEPT ![c] = IF d # <<>> /\ ~connected THEN "connect" ELSE ""]
        /\ batch_num' = [batch_num EXCEPT ![c] = IF d # <<>> /\ connected THEN 1 ELSE 0]
    /\ UNCHANGED <<table, wide>>
    /\ errors' = [errors EXCEPT ![c] = <<>>]
    /\ UNCHANGED notUpsert

\* lines 140-144: mapper.to_record raises for a valid row. The exception leaves
\* the with block: get_cursor rolls the transaction back and re-raises.
MappingError(c) ==
    /\ pc[c] = "chunk"
    /\ MappingRaises(df[c], batch_size[c], batch_num[c])
    /\ pc' = [pc EXCEPT ![c] = "raised"]
    /\ cause' = [cause EXCEPT ![c] = "mapping"]
    /\ pending' = [pending EXCEPT ![c] = {}]
    /\ chunkLog' = [chunkLog EXCEPT ![c] = Append(@, "raised")]
    /\ table' = rollback(table, pending[c])
    /\ UNCHANGED <<wide, df, batch_size, batch_num, attempt, result, callNo,
                   startKeys, added>>
    /\ errors' = [errors EXCEPT ![c] = <<>>]
    /\ UNCHANGED notUpsert

\* lines 146-148: no valid row in the chunk, no statement is executed.
SkipChunk(c) ==
    /\ pc[c] = "chunk"
    /\ ~MappingRaises(df[c], batch_size[c], batch_num[c])
    /\ CurIdx(c) = <<>>
    /\ result' = [result EXCEPT ![c] = merge(@, UpsertResult(0, 0, 0, CurSkipped(c), 0))]
    /\ chunkLog' = [chunkLog EXCEPT ![c] = Append(@, "empty")]
    /\ NextChunk(c)
    /\ UNCHANGED <<table, wide, df, batch_size, attempt, pending, cause, callNo,
                   startKeys, added>>
    /\ errors' = [errors EXCEPT ![c] = <<>>]
    /\ UNCHANGED notUpsert

\* lines 150-158: the chunk has records; the first attempt starts.
BeginExecute(c) ==
    /\ pc[c] = "chunk"
    /\ ~MappingRaises(df[c], batch_size[c], batch_num[c])
    /\ CurIdx(c) # <<>>
    /\ pc' = [pc EXCEPT ![c] = "exec"]
    /\ attempt' = [attempt EXCEPT ![c] = 1]
    /\ UNCHANGED <<table, wide, df, batch_size, batch_num, pending, result, cause,
                   callNo, chunkLog, startKeys, added>>
    /\ errors' = [errors EXCEPT ![c] = <<>>]
    /\ UNCHANGED notUpsert

\* _do_execute succeeds: SAVEPOINT, execute_values, RELEASE SAVEPOINT. One
\* statement cannot affect the same row twice, so the keys of the records are
\* distinct, and none of them is locked by another open transaction.
ExecuteOk(c) ==
    /\ pc[c] = "exec"
    /\ Cardinality(KeysOf(c, CurIdx(c))) = Len(CurIdx(c))
    /\ KeysOf(c, CurIdx(c)) \cap LockedByOthers(c) = {}
    /\ LET counts == ParseXmaxFlags(ReturningXmax(table, pending[c], df[c], CurIdx(c), Who(c)))
       IN result' = [result EXCEPT ![c] =
                        merge(@, OkBatchResult(counts[1], counts[2], CurSkipped(c)))]
    /\ pending' = [pending EXCEPT ![c] = UpsertRows(table, @, df[c], CurIdx(c), Who(c))]
    /\ chunkLog' = [chunkLog EXCEPT ![c] = Append(@, "ok")]
    /\ NextChunk(c)
    /\ attempt' = [attempt EXCEPT ![c] = 0]
    /\ UNCHANGED <<table, wide, df, batch_size, cause, callNo, startKeys, added>>
    /\ UNCHANGED errors
    /\ UNCHANGED notUpsert

\* The exceptions execute_values may raise: the connection-class errors and,
\* for every other class, IntegrityError.
ErrorClasses == {"OperationalError", "InterfaceError", "IntegrityError"}
RETRYABLE_ERRORS == {"OperationalError", "InterfaceError"}

\* (a retry condition that accepts every exception)
RetryAnyError(err) == TRUE

\* retry=retry_if_exception_type(self.RETRYABLE_ERRORS)
Retryable(err) == err \in RETRYABLE_ERRORS

\* The transaction's rows when a statement fails after writing the first n records.
DirtyAfter(c, n) == UpsertRows(table, pending[c], df[c], SubSeq(CurIdx(c), 1, n), Who(c))

\* _do_execute raises a RETRYABLE_ERRORS exception before the last attempt:
\* ROLLBACK TO SAVEPOINT, then tenacity runs _do_execute again.
ExecuteRetry(c) ==
    /\ pc[c] = "exec"
    /\ attempt[c] < max_retries
    /\ \E err \in ErrorClasses :
        /\ Retryable(err)
        /\ errors' = [errors EXCEPT ![c] = Append(@, err)]
    /\ \E n \in 0..Len(CurIdx(c)) :
        pending' = [pending EXCEPT ![c] = RollbackToSavepoint(DirtyAfter(c, n), @)]
    /\ attempt' = [attempt EXCEPT ![c] = @ + 1]
    /\ UNCHANGED <<table, wide, pc, df, batch_size, batch_num, result, cause, callNo,
                   chunkLog, startKeys, added>>
    /\ UNCHANGED notUpsert

\* _do_execute raises for good: a non-retryable error on any attempt, or a
\* retryable one on the last attempt. ROLLBACK TO SAVEPOINT, the exception
\* reaches line 177 and the chunk is counted as failed.
ExecuteFail(c) ==
    /\ pc[c] = "exec"
    /\ \E err \in ErrorClasses, n \in 0..Len(CurIdx(c)) :
        /\ Retryable(err) => attempt[c] = max_retries
        /\ errors' = [errors EXCEPT ![c] = Append(@, err)]
        /\ pending' = [pending EXCEPT ![c] = RollbackToSavepoint(DirtyAfter(c, n), @)]
    /\ result' = [result EXCEPT ![c] =
                     merge(@, FailedBatchResult(Len(CurIdx(c)), CurSkipped(c)))]
    /\ chunkLog' = [chunkLog EXCEPT ![c] = Append(@, "failed")]
    /\ NextChunk(c)
    /\ attempt' = [attempt EXCEPT ![c] = 0]
    /\ UNCHANGED <<table, wide, df, batch_size, cause, callNo, startKeys, added>>
    /\ UNCHANGED notUpsert

\* get_cursor after the with body: conn.commit() makes every released chunk
\* durable and the call returns its result.
CommitOk(c) ==
    /\ pc[c] = "commit"
    /\ table' = View(table, pending[c])
    /\ added' = [added EXCEPT ![c] = Cardinality(View(table, pending[c])) - Cardinality(table)]
    /\ pending' = [pending EXCEPT ![c] = {}]
    /\ pc' = [pc EXCEPT ![c] = "returned"]
    /\ UNCHANGED <<wide, df, batch_size, batch_num, attempt, result, cause, callNo,
                   chunkLog, startKeys>>
    /\ UNCHANGED errors
    /\ UNCHANGED notUpsert

\* conn.commit() raises (the connection is lost): rollback, the call raises.
CommitFail(c) ==
    /\ pc[c] = "commit"
    /\ pending' = [pending EXCEPT ![c] = {}]
    /\ pc' = [pc EXCEPT ![c] = "raised"]
    /\ cause' = [cause EXCEPT ![c] = "commit"]
    /\ table' = rollback(table, pending[c])
    /\ UNCHANGED <<wide, df, batch_size, batch_num, attempt, result, callNo,
                   chunkLog, startKeys, added>>
    /\ UNCHANGED errors
    /\ UNCHANGED notUpsert

UpsertNext ==
    \E c \in Callers :
        \/ Call(c)
        \/ MappingError(c)
        \/ SkipChunk(c)
        \/ BeginExecute(c)
        \/ ExecuteOk(c)
        \/ ExecuteRetry(c)
        \/ ExecuteFail(c)
        \/ CommitOk(c)
        \/ CommitFail(c)

MergeNext == MergeApply

----------------------------------------------------------------------------
(* Paginated extraction: BullhornExtractor.extract_*_paginated and the     *)
(* streaming tasks stream_* of the sync DAG.                               *)

MaxPages == 4       \* requests of one attempt
SmallPage == 2      \* the small page_size a caller may pass

DefaultPageSize == 1000
StreamPageSize == 1000
MAX_RECORDS_PER_SYNC == 50000
ExtractAttempts == 3
EmptyPagesLimit == 3

ExtractFns == {"extract_consultants_paginated", "extract_candidates_paginated"}
StreamFns == {"stream_consultants", "stream_candidates", "stream_positions"}
IsStream(f) == f \in StreamFns

\* stream_consultants and stream_candidates compare their total with
\* MAX_RECORDS_PER_SYNC; stream_positions has no such test.
ChecksLimit(f) == f \in {"stream_consultants", "stream_candidates"}

PageSizes == {SmallPage, DefaultPageSize}
MaxRecordsChoices == {0, 1, SmallPage + 1, 2 * DefaultPageSize}
StartPages == {0, 1}
\* Values MAX_RECORDS_PER_SYNC may be configured to: the repository's, and two
\* that a run of a few pages reaches.
SyncLimits == {StreamPageSize, 2 * StreamPageSize, MAX_RECORDS_PER_SYNC}

\* Lengths of the content a request for `size` records may come back with.
PageLens(size) == {0, 1, size \div 2, size - 1, size}

\* The shapes of a response body (response.json()), n being the length of the
\* array it carries, if any:
\*   "data.content"       {data: {content: [...]}}
\*   "content"            {content: [...]}
\*   "list"               [...]
\*   "data"               {data: {...}} without 'content' anywhere
\*   "other"              a dict with neither key, a string, a number, null
\*   "data.content=null"  {data: {content: null}}
\*   "content=null"       {content: null}
\*   "data{}+content"     {data: {}, content: [...]}
\*   "data=null+content"  {data: null, content: [...]}
Shapes == {"data.content", "content", "list", "data", "other", "data.content=null",
           "content=null", "data{}+content", "data=null+content"}
Responses(size) == [shape : Shapes, n : PageLens(size)]

\* Python values _extract_content can return.
PyList(n) == [type |-> "list", n |-> n]
PyNone == [type |-> "NoneType", n |-> 0]

\* _extract_content: response['data']['content'] when 'data' is a dict that
\* has 'content'; response['content'] when 'data' is absent or not a dict and
\* 'content' is present; the response itself when it is a list; [] otherwise.
extract_content(response) ==
    CASE response.shape = "data.content" -> PyList(response.n)
      [] response.shape = "data.content=null" -> PyNone
      [] response.shape \in {"data", "data{}+content"} -> PyList(0)
      [] response.shape \in {"content", "data=null+content"} -> PyList(response.n)
      [] response.shape = "content=null" -> PyNone
      [] response.shape = "list" -> PyList(response.n)
      [] OTHER -> PyList(0)

\* The number of records the loop goes on with ("if not consultants" takes
\* None for an empty page).
ExtractContent(response) ==
    LET content == extract_content(response)
    IN IF content.type = "list" THEN content.n ELSE 0

NeverLastPage(n, size) == FALSE

\* (a test that takes a full page for the last one, too)
IsLastPageOrFull(n, size) == n <= size

\* "if len(records) < page_size: break"
IsLastPage(n, size) == n < size

\* "if max_records and total_fetched >= max_records" in extract_*_paginated,
\* "if total_processed >= MAX_RECORDS_PER_SYNC" in the streams that have it.
LimitReached(f, mx, total) ==
    IF IsStream(f) THEN ChecksLimit(f) /\ total >= mx
    ELSE mx # 0 /\ total >= mx

\* Rows that drop_duplicates(subset=['bullhornId'], keep='last') may remove
\* from a page of n records in a stream's transform step.
Duplicates(f, n) == IF IsStream(f) /\ n >= 2 THEN {0, 1} ELSE {0}

RECURSIVE TotalOf(_)
TotalOf(segments) ==
    IF segments = <<>> THEN 0 ELSE segments[1][2] + TotalOf(Tail(segments))

ExIdle ==
    /\ xpc = "idle" /\ fn = "" /\ page_size = 0 /\ max_records = 0 /\ start_page = 0
    /\ page = 0 /\ total_fetched = 0 /\ consecutive_empty_pages = 0
    /\ all_records = <<>> /\ xattempt = 0 /\ fetchLog = <<>> /\ priorFetches = 0
    /\ errorLog = <<>>
    /\ xret = <<>>

\* The locals at the top of the function body.
EnterBody(st) ==
    /\ page' = st
    /\ total_fetched' = 0
    /\ consecutive_empty_pages' = 0
    /\ all_records' = <<>>
    /\ fetchLog' = <<>>

XCall(f, size, mx, st) ==
    /\ xpc = "idle"
    /\ IsStream(f) => size = StreamPageSize /\ mx \in SyncLimits /\ st = 0
    /\ ~IsStream(f) => mx \in MaxRecordsChoices
    /\ fn' = f /\ page_size' = size /\ max_records' = mx /\ start_page' = st
    /\ EnterBody(st)
    /\ xattempt' = 1
    /\ priorFetches' = 0
    /\ errorLog' = <<>>
    /\ xpc' = "loop"
    /\ UNCHANGED xret
    /\ UNCHANGED notExtract

CanFetch == xpc = "loop" /\ Len(fetchLog) < MaxPages

\* Leaving the while loop: extract_*_paginated returns its list, a stream
\* goes on to log the run.
LeaveLoop ==
    IF IsStream(fn)
    THEN xpc' = "logging" /\ UNCHANGED xret
    ELSE xpc' = "returned" /\ xret' = <<all_records'>>

\* (a test that lets a fourth empty page through)
EmptyLimitOffByOne(n) == n > EmptyPagesLimit

\* "if consecutive_empty_pages >= 3: break"
EmptyLimitReached(n) == n >= EmptyPagesLimit

\* A request whose content is empty.
FetchEmpty ==
    /\ CanFetch
    /\ \E response \in Responses(page_size) :
        /\ ExtractContent(response) = 0
        /\ fetchLog' = Append(fetchLog, [page |-> page, n |-> 0])
    /\ consecutive_empty_pages' = consecutive_empty_pages + 1
    /\ UNCHANGED <<all_records, total_fetched>>
    /\ IF EmptyLimitReached(consecutive_empty_pages')
       THEN LeaveLoop /\ UNCHANGED page
       ELSE page' = page + 1 /\ UNCHANGED <<xpc, xret>>
    /\ UNCHANGED <<fn, page_size, max_records, start_page, xattempt, priorFetches, errorLog>>
    /\ UNCHANGED notExtract

\* (a loop that leaves the counter as it is after a non-empty page)
KeepEmptyCounter(n) == n

\* "consecutive_empty_pages = 0" after a non-empty page
ResetEmptyCounter(n) == 0

\* A request whose content is not empty; a stream transforms and loads it.
FetchPage ==
    /\ CanFetch
    /\ \E response \in Responses(page_size) : \E d \in Duplicates(fn, ExtractContent(response)) :
        LET n == ExtractContent(response) IN
        /\ n > 0
        /\ fetchLog' = Append(fetchLog, [page |-> page, n |-> n])
        /\ consecutive_empty_pages' = ResetEmptyCounter(consecutive_empty_pages)
        /\ all_records' = IF IsStream(fn) THEN all_records
                          ELSE Append(all_records, <<page, n>>)
        /\ total_fetched' = total_fetched + (n - d)
        /\ IF LimitReached(fn, max_records, total_fetched') \/ IsLastPage(n, page_size)
           THEN LeaveLoop /\ UNCHANGED page
           ELSE page' = page + 1 /\ UNCHANGED <<xpc, xret>>
    /\ UNCHANGED <<fn, page_size, max_records, start_page, xattempt, priorFetches, errorLog>>
    /\ UNCHANGED notExtract

\* The request raises (network error, 5xx, bad JSON). The except clause
\* re-raises; tenacity calls extract_*_paginated again from its first line
\* until the third attempt; a stream is not wrapped and raises.
FetchError ==
    /\ CanFetch
    /\ errorLog' = Append(errorLog, page)
    /\ IF ~IsStream(fn) /\ xattempt < ExtractAttempts
       THEN /\ EnterBody(start_page)
            /\ xattempt' = xattempt + 1
            /\ priorFetches' = priorFetches + Len(fetchLog) + 1
            /\ UNCHANGED xpc
       ELSE /\ fetchLog' = Append(fetchLog, [page |-> page, n |-> -1])
            /\ xpc' = "raised"
            /\ UNCHANGED <<page, total_fetched, consecutive_empty_pages, all_records,
                           xattempt, priorFetches>>
    /\ UNCHANGED <<fn, page_size, max_records, start_page, xret>>
    /\ UNCHANGED notExtract

\* A stream's transform, validation or load of a fetched page raises.
LoadError ==
    /\ CanFetch
    /\ IsStream(fn)
    /\ \E response \in Responses(page_size) :
        /\ ExtractContent(response) > 0
        /\ fetchLog' = Append(fetchLog, [page |-> page, n |-> ExtractContent(response)])
    /\ consecutive_empty_pages' = 0
    /\ xpc' = "raised"
    /\ UNCHANGED <<fn, page_size, max_records, start_page, page, total_fetched,
                   all_records, xattempt, priorFetches, errorLog, xret>>
    /\ UNCHANGED notExtract

\* pipeline_logger.log_run after the loop of a stream, then the return.
LogRun ==
    /\ xpc = "logging"
    /\ \/ xpc' = "returned" /\ xret' = <<[processed |-> total_fetched, pages |-> page + 1]>>
       \/ xpc' = "raised" /\ UNCHANGED xret
    /\ UNCHANGED <<fn, page_size, max_records, start_page, page, total_fetched,
                   consecutive_empty_pages, all_records, xattempt, fetchLog, priorFetches,
                   errorLog>>
    /\ UNCHANGED notExtract

ExtractNext ==
    \/ \E f \in ExtractFns \cup StreamFns, size \in PageSizes \cup {StreamPageSize},
          mx \in MaxRecordsChoices \cup SyncLimits, st \in StartPages : XCall(f, size, mx, st)
    \/ FetchEmpty
    \/ FetchPage
    \/ FetchError
    \/ LoadError
    \/ LogRun

----------------------------------------------------------------------------
(* Embedding backfill: EmbeddingGenerator.generate_candidate_embeddings,   *)
(* generate_position_embeddings and their batch workers.                   *)

MaxRecs == 3        \* records of the entity type in the store
MaxBfBatch == 2     \* largest batch_size
MaxWorkers == 2     \* largest max_workers

RecIds == 1..MaxRecs
Stats(p, u, e) == [processed |-> p, updated |-> u, errors |-> e]

SelectAll(vec) == [i \in 1..MaxRecs |-> MaxRecs + 1 - i]

\* SELECT ... WHERE "<vector column>" IS NULL ORDER BY "createdAt" DESC:
\* the ids with a NULL vector, newest (highest id) first.
RECURSIVE SelectFrom(_, _)
SelectFrom(vec, id) ==
    IF id = 0 THEN <<>>
    ELSE (IF vec[id] = 0 THEN <<id>> ELSE <<>>) \o SelectFrom(vec, id - 1)

SelectNull(vec) == SelectFrom(vec, MaxRecs)

\* batches.append((rows[i:i + batch_size], i // batch_size + 1))
BfNumBatches(rows, bs) == (Len(rows) + bs - 1) \div bs
BatchRows(rows, bs, b) == SubSeq(rows, (b - 1) * bs + 1, Min(b * bs, Len(rows)))

\* ', '.join(skills) raises TypeError when the list holds a non-string
\* (a NULL array element); it runs before the worker's try block.
BuildRaises(batch) == \E i \in 1..Len(batch) : ~joinable[batch[i]]

AggregateOverwrites(tot, r) == r

\* total_processed += result['processed'], and so on
Aggregate(tot, r) ==
    Stats(tot.processed + r.processed, tot.updated + r.updated, tot.errors + r.errors)

\* except Exception: total_errors += self.batch_size
AggregateException(tot, bs, batch) == [tot EXCEPT !.errors = @ + bs]

FailedBatchStats(batch) == Stats(0, 0, Len(batch))
DoneBatchStats(batch) == Stats(Len(batch), Len(batch), 0)

BfInit ==
    /\ bpc = "idle"
    /\ entity \in {"candidate", "position"}
    /\ vector \in [RecIds -> {0, 1}]
    /\ joinable \in [RecIds -> BOOLEAN]
    /\ bf_batch_size \in 1..MaxBfBatch
    /\ max_workers \in 1..MaxWorkers
    /\ selected = <<>> /\ wstate = <<>> /\ wresult = <<>>
    /\ totals = Stats(0, 0, 0) /\ order = <<>>
    /\ requests = 0 /\ writes = 0 /\ nullsAtStart = 0
    /\ lastRun = <<>> /\ bret = <<>>

BfIdle ==
    /\ bpc = "off" /\ entity = "" /\ vector = <<>> /\ joinable = <<>>
    /\ bf_batch_size = 0 /\ max_workers = 0
    /\ selected = <<>> /\ wstate = <<>> /\ wresult = <<>>
    /\ totals = Stats(0, 0, 0) /\ order = <<>>
    /\ requests = 0 /\ writes = 0 /\ nullsAtStart = 0
    /\ lastRun = <<>> /\ bret = <<>>

BfConfig == <<entity, joinable, bf_batch_size, max_workers>>
CurBatch(b) == BatchRows(selected, bf_batch_size, b)
Busy == {b \in DOMAIN wstate : wstate[b] \in {"texts", "embedded"}}
CanRun == bpc \in {"idle", "returned", "raised"}

PoolUnbounded == TRUE

\* ThreadPoolExecutor(max_workers=self.max_workers): a submitted batch starts
\* only when fewer than max_workers threads are running one.
WorkerFree == Cardinality(Busy) < max_workers

\* generate_*_embeddings up to the submission of the batches; with nothing
\* selected it returns at once.
RunStart ==
    /\ CanRun
    /\ LET rows == SelectNull(vector) IN
        /\ selected' = rows
        /\ nullsAtStart' = Len(SelectFrom(vector, MaxRecs))
        /\ wstate' = [b \in 1..BfNumBatches(rows, bf_batch_size) |-> "queued"]
        /\ wresult' = [b \in 1..BfNumBatches(rows, bf_batch_size) |-> <<>>]
        /\ IF Len(rows) = 0
           THEN bpc' = "returned" /\ bret' = <<Stats(0, 0, 0)>>
           ELSE bpc' = "pool" /\ bret' = <<>>
    /\ totals' = Stats(0, 0, 0) /\ order' = <<>>
    /\ requests' = 0 /\ writes' = 0
    /\ lastRun' = bret
    /\ UNCHANGED <<vector, BfConfig>>
    /\ UNCHANGED ovVars
    /\ UNCHANGED notBackfill

\* Connecting or the SELECT fails: the call raises.
SelectFails ==
    /\ CanRun
    /\ bpc' = "raised"
    /\ selected' = <<>> /\ wstate' = <<>> /\ wresult' = <<>>
    /\ nullsAtStart' = Len(SelectFrom(vector, MaxRecs))
    /\ totals' = Stats(0, 0, 0) /\ order' = <<>>
    /\ requests' = 0 /\ writes' = 0
    /\ lastRun' = bret /\ bret' = <<>>
    /\ UNCHANGED <<vector, BfConfig>>
    /\ UNCHANGED ovVars
    /\ UNCHANGED notBackfill

BfFrame == <<bpc, selected, totals, order, nullsAtStart, lastRun, bret, BfConfig>>

\* A pool thread takes the batch and builds its texts.
BuildTexts(b) ==
    /\ bpc = "pool" /\ b \in DOMAIN wstate /\ wstate[b] = "queued"
    /\ WorkerFree
    /\ ~BuildRaises(CurBatch(b))
    /\ wstate' = [wstate EXCEPT ![b] = "texts"]
    /\ UNCHANGED <<wresult, vector, requests, writes, BfFrame>>
    /\ UNCHANGED ovVars
    /\ UNCHANGED notBackfill

\* Building the texts raises: the future holds the exception.
BuildTextsRaises(b) ==
    /\ bpc = "pool" /\ b \in DOMAIN wstate /\ wstate[b] = "queued"
    /\ WorkerFree
    /\ BuildRaises(CurBatch(b))
    /\ wstate' = [wstate EXCEPT ![b] = "raised"]
    /\ UNCHANGED <<wresult, vector, requests, writes, BfFrame>>
    /\ UNCHANGED ovVars
    /\ UNCHANGED notBackfill

RequestOk(b) ==
    /\ bpc = "pool" /\ b \in DOMAIN wstate /\ wstate[b] = "texts"
    /\ wstate' = [wstate EXCEPT ![b] = "embedded"]
    /\ requests' = requests + 1
    /\ UNCHANGED <<wresult, vector, writes, BfFrame>>
    /\ resent' = resent \cup {id \in Range(CurBatch(b)) : vector[id] = 1}
    /\ UNCHANGED <<ovRun, overwritten>>
    /\ UNCHANGED notBackfill

RequestFails(b) ==
    /\ bpc = "pool" /\ b \in DOMAIN wstate /\ wstate[b] = "texts"
    /\ wstate' = [wstate EXCEPT ![b] = "done"]
    /\ wresult' = [wresult EXCEPT ![b] = <<FailedBatchStats(CurBatch(b))>>]
    /\ requests' = requests + 1
    /\ UNCHANGED <<vector, writes, BfFrame>>
    /\ resent' = resent \cup {id \in Range(CurBatch(b)) : vector[id] = 1}
    /\ UNCHANGED <<ovRun, overwritten>>
    /\ UNCHANGED notBackfill

\* (a service that returns one embedding fewer than it was sent texts)
EncodeDropsLast(texts) == [i \in 1..(Len(texts) - 1) |-> 1]

\* POST /embeddings/batch of the ML service: model.encode(request.texts)
\* gives one vector per text (1 stands for a vector).
model_encode(texts) == [i \in 1..Len(texts) |-> 1]

\* update_data: zip(batch_ids, embeddings) pairs ids and vectors up to the
\* shorter of the two.
UpdateData(batch_ids, embeddings) ==
    [i \in 1..Min(Len(batch_ids), Len(embeddings)) |-> <<embeddings[i], batch_ids[i]>>]

\* The ids the UPDATE statements of a batch name.
UpdatedIds(batch) ==
    LET update_data == UpdateData(batch, model_encode(batch))
    IN {update_data[i][2] : i \in DOMAIN update_data}

\* executemany UPDATE and commit on the worker's own connection.
WriteOk(b) ==
    /\ bpc = "pool" /\ b \in DOMAIN wstate /\ wstate[b] = "embedded"
    /\ vector' = [id \in RecIds |-> IF id \in UpdatedIds(CurBatch(b)) THEN 1 ELSE vector[id]]
    /\ writes' = writes + 1
    /\ wstate' = [wstate EXCEPT ![b] = "done"]
    /\ wresult' = [wresult EXCEPT ![b] = <<DoneBatchStats(CurBatch(b))>>]
    /\ UNCHANGED <<requests, BfFrame>>
    /\ overwritten' = overwritten \cup {id \in UpdatedIds(CurBatch(b)) : vector[id] = 1}
    /\ UNCHANGED <<ovRun, resent>>
    /\ UNCHANGED notBackfill

\* Connecting, the UPDATE or the commit fails: nothing is committed.
WriteFails(b) ==
    /\ bpc = "pool" /\ b \in DOMAIN wstate /\ wstate[b] = "embedded"
    /\ wstate' = [wstate EXCEPT ![b] = "done"]
    /\ wresult' = [wresult EXCEPT ![b] = <<FailedBatchStats(CurBatch(b))>>]
    /\ UNCHANGED <<vector, requests, writes, BfFrame>>
    /\ UNCHANGED ovVars
    /\ UNCHANGED notBackfill

\* One iteration of "for future in as_completed(...)" in the main thread;
\* after the last one the function returns the totals.
Collect(b) ==
    /\ bpc = "pool" /\ b \in DOMAIN wstate /\ wstate[b] \in {"done", "raised"}
    /\ totals' = IF wstate[b] = "done" THEN Aggregate(totals, wresult[b][1])
                 ELSE AggregateException(totals, bf_batch_size, CurBatch(b))
    /\ order' = Append(order, b)
    /\ wstate' = [wstate EXCEPT ![b] = "collected"]
    /\ IF \A c \in DOMAIN wstate : c # b => wstate[c] = "collected"
       THEN bpc' = "returned" /\ bret' = <<totals'>>
       ELSE UNCHANGED <<bpc, bret>>
    /\ UNCHANGED <<wresult, vector, requests, writes, selected, nullsAtStart, lastRun, BfConfig>>
    /\ UNCHANGED ovVars
    /\ UNCHANGED notBackfill

BackfillNext ==
    \/ RunStart
    \/ SelectFails
    \/ \E b \in 1..MaxRecs :
        \/ BuildTexts(b)
        \/ BuildTextsRaises(b)
        \/ RequestOk(b)
        \/ RequestFails(b)
        \/ WriteOk(b)
        \/ WriteFails(b)
        \/ Collect(b)

\* ---- a second run of generate_*_embeddings overlapping the first ----
\* (another active DAG run or a manual trigger; nothing in the code excludes it)

OvIdle ==
    /\ overlap = FALSE /\ opc = "off" /\ oselected = <<>> /\ ostate = <<>>
    /\ resent = {} /\ overwritten = {}

OvInit ==
    /\ overlap = TRUE /\ opc = "idle" /\ oselected = <<>> /\ ostate = <<>>
    /\ resent = {} /\ overwritten = {}

OBatch(b) == BatchRows(oselected, bf_batch_size, b)
OFrame == <<overlap, oselected>>

\* The second run's SELECT and the submission of its batches.
ORunStart ==
    /\ opc = "idle"
    /\ oselected' = SelectNull(vector)
    /\ ostate' = [b \in 1..BfNumBatches(SelectNull(vector), bf_batch_size) |-> "queued"]
    /\ opc' = IF SelectNull(vector) = <<>> THEN "returned" ELSE "pool"
    /\ UNCHANGED <<overlap, resent, overwritten, bfVars>>
    /\ UNCHANGED notBackfill

\* A worker of the second run sends its batch's texts; the request succeeds or fails.
ORequest(b) ==
    /\ opc = "pool" /\ b \in DOMAIN ostate /\ ostate[b] = "queued"
    /\ ~BuildRaises(OBatch(b))
    /\ resent' = resent \cup {id \in Range(OBatch(b)) : vector[id] = 1}
    /\ \E next \in {"embedded", "done"} : ostate' = [ostate EXCEPT ![b] = next]
    /\ UNCHANGED <<opc, OFrame, overwritten, bfVars>>
    /\ UNCHANGED notBackfill

\* Its executemany UPDATE ... WHERE id = %s and commit.
OWrite(b) ==
    /\ opc = "pool" /\ b \in DOMAIN ostate /\ ostate[b] = "embedded"
    /\ overwritten' = overwritten \cup {id \in Range(OBatch(b)) : vector[id] = 1}
    /\ vector' = [id \in RecIds |-> IF id \in Range(OBatch(b)) THEN 1 ELSE vector[id]]
    /\ ostate' = [ostate EXCEPT ![b] = "done"]
    /\ UNCHANGED <<opc, OFrame, resent>>
    /\ UNCHANGED <<bpc, BfConfig, selected, wstate, wresult, totals, order, requests,
                   writes, nullsAtStart, lastRun, bret>>
    /\ UNCHANGED notBackfill

\* Building the texts raises, or the write-back fails.
OFail(b) ==
    /\ opc = "pool" /\ b \in DOMAIN ostate
    /\ \/ ostate[b] = "queued" /\ BuildRaises(OBatch(b))
       \/ ostate[b] = "embedded"
    /\ ostate' = [ostate EXCEPT ![b] = "done"]
    /\ UNCHANGED <<opc, OFrame, resent, overwritten, bfVars>>
    /\ UNCHANGED notBackfill

\* Every future of the second run is collected: it returns.
OReturn ==
    /\ opc = "pool" /\ \A b \in DOMAIN ostate : ostate[b] = "done"
    /\ opc' = "returned"
    /\ UNCHANGED <<overlap, oselected, ostate, resent, overwritten, bfVars>>
    /\ UNCHANGED notBackfill

OverlapNext ==
    \/ RunStart
    \/ SelectFails
    \/ ORunStart
    \/ OReturn
    \/ \E b \in 1..MaxRecs :
        \/ BuildTexts(b)
        \/ BuildTextsRaises(b)
        \/ RequestOk(b)
        \/ RequestFails(b)
        \/ WriteOk(b)
        \/ WriteFails(b)
        \/ Collect(b)
        \/ ORequest(b)
        \/ OWrite(b)
        \/ OFail(b)


\* Every step of a run is eventually taken; a request and a write-back that
\* are tried again and again eventually succeed.
BackfillFairness ==
    /\ WF_vars(RunStart)
    /\ \A b \in 1..MaxRecs :
        /\ WF_vars(BuildTexts(b))
        /\ WF_vars(BuildTextsRaises(b))
        /\ WF_vars(Collect(b))
        /\ SF_vars(RequestOk(b))
        /\ SF_vars(WriteOk(b))

----------------------------------------------------------------------------
(* MatchingService scoring functions (ml-service/src/matching.py) *)

MaxReq == 2         \* longest requiredSkills list
MaxPref == 1        \* longest preferredSkills list
MaxCandSkills == 2  \* most skills of a candidate
MaxMonths == 150    \* largest total_months of a candidate

\* str.lower(), str.strip() and str.upper() on the strings of the model.
Lower(s) ==
    CASE s = "Python " -> "python "
      [] s = "Austin" -> "austin"
      [] s = " TX" -> " tx"
      [] s = "TX" -> "tx"
      [] s = "Dallas" -> "dallas"
      [] s = "Boston" -> "boston"
      [] s = " MA" -> " ma"
      [] s = "Seattle" -> "seattle"
      [] s = " WA" -> " wa"
      [] s = "Remote" -> "remote"
      [] s = " Remote OK" -> " remote ok"
      [] OTHER -> s

Strip(s) ==
    CASE s = "python " -> "python"
      [] s = " tx" -> "tx"
      [] s = " ma" -> "ma"
      [] s = " wa" -> "wa"
      [] s = " remote ok" -> "remote ok"
      [] OTHER -> s

Upper(s) ==
    CASE s = "senior" -> "SENIOR"
      [] s = "Mid" -> "MID"
      [] OTHER -> s

SKILL_SYNONYMS ==
    [javascript |-> {"js", "es6", "es2015", "ecmascript"},
     typescript |-> {"ts"},
     python |-> {"py"},
     react |-> {"reactjs", "react.js"},
     node |-> {"nodejs", "node.js"}]

\* Lower-case and trim only: the synonym table is not consulted.
CanonicalizeWithoutSynonyms(skill) == Strip(Lower(skill))

canonicalize_skill(skill) ==
    LET skill_lower == Strip(Lower(skill))
        hits == {c \in DOMAIN SKILL_SYNONYMS :
                    skill_lower \in SKILL_SYNONYMS[c] \/ skill_lower = c}
    IN IF hits = {} THEN skill_lower ELSE CHOOSE c \in hits : TRUE

\* Python's round(): to the nearest integer, a tie to the even one; here of
\* the quotient (numerator / denominator) * 100.
PyRoundPercent(numerator, denominator) ==
    LET q == (100 * numerator) \div denominator
        r == (100 * numerator) % denominator
    IN IF 2 * r < denominator THEN q
       ELSE IF 2 * r > denominator THEN q + 1
       ELSE IF q % 2 = 0 THEN q ELSE q + 1

RECURSIVE Matched(_, _)
\* sum(1 for s in canonical_list if s in candidate_canonical)
Matched(skills, candidate_canonical) ==
    IF skills = <<>> THEN 0
    ELSE (IF canonicalize_skill(Head(skills)) \in candidate_canonical THEN 1 ELSE 0)
         + Matched(Tail(skills), candidate_canonical)

score_candidate_skills(candidate_skills, required_skills, preferred_skills) ==
    IF candidate_skills = {} THEN 0
    ELSE LET candidate_canonical == {canonicalize_skill(k) : k \in candidate_skills}
             denominator == Len(required_skills) * 2 + Len(preferred_skills)
             numerator == Matched(required_skills, candidate_canonical) * 2
                          + Matched(preferred_skills, candidate_canonical)
         IN IF denominator > 0 THEN PyRoundPercent(numerator, denominator) ELSE 0

EXPERIENCE_LEVELS == [ENTRY |-> 1, MID |-> 2, SENIOR |-> 3, LEAD |-> 4, EXECUTIVE |-> 5]

\* EXPERIENCE_LEVELS.get(target_level.upper(), 3)
TargetLevelNum(target_level) ==
    IF Upper(target_level) \in DOMAIN EXPERIENCE_LEVELS
    THEN EXPERIENCE_LEVELS[Upper(target_level)] ELSE 3

\* The levels numbered 0..4 instead of 1..5.
CandidateLevelFromZero(months) ==
    IF months < 2 * 12 THEN 0
    ELSE IF months < 5 * 12 THEN 1
    ELSE IF months < 8 * 12 THEN 2
    ELSE IF months < 12 * 12 THEN 3
    ELSE 4

\* years = total_months / 12 against the thresholds 2, 5, 8 and 12.
CandidateLevel(months) ==
    IF months < 2 * 12 THEN 1
    ELSE IF months < 5 * 12 THEN 2
    ELSE IF months < 8 * 12 THEN 3
    ELSE IF months < 12 * 12 THEN 4
    ELSE 5

Abs(x) == IF x < 0 THEN -x ELSE x

\* months = 0 stands for estimate_years_experience returning None.
score_exp(months, target_level) ==
    IF target_level = "" THEN 50
    ELSE IF months = 0 THEN 50
    ELSE LET diff == Abs(CandidateLevel(months) - TargetLevelNum(target_level))
         IN IF diff = 0 THEN 100
            ELSE IF diff = 1 THEN 75
            ELSE IF diff = 2 THEN 50
            ELSE 25

\* A location is the sequence of its comma-separated segments; <<>> is an
\* absent or empty location.
LowerLoc(loc) == [j \in DOMAIN loc |-> Lower(loc[j])]
HasRemote(loc) == \E j \in DOMAIN loc : Strip(Lower(loc[j])) \in {"remote", "remote ok"}

\* The same ladder without the test that both locations have two segments.
ScoreLocAnyLastSegment(candidate_location, target_location) ==
    IF target_location = <<>> THEN 50
    ELSE IF candidate_location = <<>> THEN 50
    ELSE LET candidate_parts == LowerLoc(candidate_location)
             target_parts == LowerLoc(target_location)
         IN IF HasRemote(candidate_location) \/ HasRemote(target_location) THEN 100
            ELSE IF candidate_parts = target_parts THEN 100
            ELSE IF Strip(candidate_parts[1]) = Strip(target_parts[1]) THEN 80
            ELSE IF Strip(candidate_parts[Len(candidate_parts)])
                        = Strip(target_parts[Len(target_parts)])
                 THEN 60
            ELSE 30

score_loc(candidate_location, target_location) ==
    IF target_location = <<>> THEN 50
    ELSE IF candidate_location = <<>> THEN 50
    ELSE LET candidate_parts == LowerLoc(candidate_location)
             target_parts == LowerLoc(target_location)
         IN IF HasRemote(candidate_location) \/ HasRemote(target_location) THEN 100
            ELSE IF candidate_parts = target_parts THEN 100
            ELSE IF Strip(candidate_parts[1]) = Strip(target_parts[1]) THEN 80
            ELSE IF /\ Len(candidate_parts) >= 2 /\ Len(target_parts) >= 2
                    /\ Strip(candidate_parts[Len(candidate_parts)])
                           = Strip(target_parts[Len(target_parts)])
                 THEN 60
            ELSE 30

WEIGHTS == [SEMANTIC |-> 60, SKILL |-> 24, EXPERIENCE |-> 12, LOCATION |-> 4]  \* percent

\* (semantic * 0.6 + skill * 0.24 + experience * 0.12 + location * 0.04).round()
overall_score(semantic, skill, experience, loc) ==
    PyRoundPercent(semantic * WEIGHTS.SEMANTIC + skill * WEIGHTS.SKILL
                   + experience * WEIGHTS.EXPERIENCE + loc * WEIGHTS.LOCATION, 100 * 100)

\* ((1 - (a <=> b)) * 100): the cosine distance <=> lies between 0 and 2;
\* here the distance is given in hundredths.
SimilarityOf(distance) == 100 - distance

\* Inputs of the scoring functions.
CosineDistances == {0, 50, 100, 150, 200}
SkillScores == {0, 50, 100}
ExperienceScores == {25, 50, 75, 100}
LocationScores == {30, 50, 60, 80, 100}
SkillNames == {"python", "react", "aws", "py", "reactjs", "Python "}
SkillLists(n) == UNION {[1..k -> SkillNames] : k \in 0..n}
SkillSets == {S \in SUBSET SkillNames : Cardinality(S) <= MaxCandSkills}
TargetLevels == {"", "ENTRY", "Mid", "senior", "SENIOR", "LEAD", "EXECUTIVE", "PRINCIPAL"}
Locations ==
    {<<>>, <<"Austin", " TX">>, <<"austin", " tx">>, <<"Austin", "TX">>,
     <<"Dallas", " TX">>, <<"Remote">>, <<"Boston", " MA">>, <<"Seattle", " WA">>,
     <<"TX">>, <<"Austin">>, <<"Austin", " Remote OK">>, <<"Boston", " MA", " TX">>}

\* fetch_candidates_for_position: "elif position_skills" adds the filter
\* c.skills && %(skills)s::text[] (the arrays share an element, compared as
\* the stored strings); without position skills there is no filter.
SkillsOverlap(skills, all_skills) == all_skills = {} \/ skills \cap all_skills # {}

NoSkIn == [cand |-> {}, req |-> <<>>, pref |-> <<>>]
NoExIn == [target |-> "", months |-> 0]
NoLocIn == [target |-> <<>>, cand |-> <<>>]
NoOvIn == [distance |-> 0, skill |-> 0, experience |-> 0, location |-> 0]

ScIdle ==
    /\ sfn = "off" /\ skIn = NoSkIn /\ exIn = NoExIn /\ locIn = NoLocIn /\ ovIn = NoOvIn
    /\ sout = <<>>

ScInit ==
    /\ sout = <<>>
    /\ \/ /\ sfn = "skills"
          /\ skIn \in [cand : SkillSets, req : SkillLists(MaxReq), pref : SkillLists(MaxPref)]
          /\ exIn = NoExIn /\ locIn = NoLocIn /\ ovIn = NoOvIn
       \/ /\ sfn = "experience"
          /\ exIn \in [target : TargetLevels, months : 0..MaxMonths]
          /\ skIn = NoSkIn /\ locIn = NoLocIn /\ ovIn = NoOvIn
       \/ /\ sfn = "location"
          /\ locIn \in [target : Locations, cand : Locations]
          /\ skIn = NoSkIn /\ exIn = NoExIn /\ ovIn = NoOvIn
       \/ /\ sfn = "overall"
          /\ ovIn \in [distance : CosineDistances, skill : SkillScores,
                        experience : ExperienceScores, location : LocationScores]
          /\ skIn = NoSkIn /\ exIn = NoExIn /\ locIn = NoLocIn
       \/ /\ sfn = "fetch"
          /\ skIn \in [cand : SkillSets, req : SkillLists(MaxReq), pref : SkillLists(MaxPref)]
          /\ exIn = NoExIn /\ locIn = NoLocIn /\ ovIn = NoOvIn

ScoreSkills ==
    /\ sfn = "skills" /\ sout = <<>>
    /\ sout' = <<score_candidate_skills(skIn.cand, skIn.req, skIn.pref)>>
    /\ UNCHANGED <<sfn, skIn, exIn, locIn, ovIn>>
    /\ UNCHANGED notScore

ScoreExperience ==
    /\ sfn = "experience" /\ sout = <<>>
    /\ sout' = <<score_exp(exIn.months, exIn.target)>>
    /\ UNCHANGED <<sfn, skIn, exIn, locIn, ovIn>>
    /\ UNCHANGED notScore

ScoreLocation ==
    /\ sfn = "location" /\ sout = <<>>
    /\ sout' = <<score_loc(locIn.cand, locIn.target)>>
    /\ UNCHANGED <<sfn, skIn, exIn, locIn, ovIn>>
    /\ UNCHANGED notScore

\* The composite of the four scores of one fetched row.
ScoreOverall ==
    /\ sfn = "overall" /\ sout = <<>>
    /\ sout' = <<overall_score(SimilarityOf(ovIn.distance), ovIn.skill, ovIn.experience,
                               ovIn.location)>>
    /\ UNCHANGED <<sfn, skIn, exIn, locIn, ovIn>>
    /\ UNCHANGED notScore

\* The WHERE clause of the candidate query applied to one ACTIVE candidate:
\* 1 when the row is selected, 0 when it is not.
FetchFilter ==
    /\ sfn = "fetch" /\ sout = <<>>
    /\ sout' = <<IF SkillsOverlap(skIn.cand, Range(skIn.req) \cup Range(skIn.pref))
                 THEN 1 ELSE 0>>
    /\ UNCHANGED <<sfn, skIn, exIn, locIn, ovIn>>
    /\ UNCHANGED notScore

ScoreNext ==
    \/ FetchFilter
    \/ ScoreSkills
    \/ ScoreExperience
    \/ ScoreLocation
    \/ ScoreOverall

----------------------------------------------------------------------------
(* Matching Engine: MatchingService.find_matches, compute_matches_for_position, *)
(* fetch_candidates_for_position and bulk_upsert_matches (matching.py).         *)

MaxCand == 2        \* active candidates 1..MaxCand
MaxPos == 2         \* open positions 1..MaxPos
MaxRuns == 2        \* calls of find_matches
MaxTicks == 1       \* months that pass during a behaviour

FetchLimit == 2000              \* limit of fetch_candidates_for_position
MaxMatchesPerPosition == 100    \* max_matches of compute_matches_for_position
DefaultMinScore == 70           \* min_score of find_matches
NeutralScore == 50              \* fillna(50)
Null == -1                      \* SQL NULL / None of a score or of a month
FirstMonth == 24                \* the month of the first run; months count from 1

CandIds == 1..MaxCand
PosIds == 1..MaxPos

\* Position.descriptionEmbedding::text, character by character; <<>> is NULL.
PosEmbeddings ==
    {<<>>, <<"[", "1", ",", "0", "]">>, <<"1", ",", "0">>, <<"[", "a", "b", "c", "]">>}

\* An experience entry is [startDate, endDate] in months; endDate Null: ongoing.
Experiences == {<<>>, <<[startDate |-> 1, endDate |-> Null]>>}

\* Candidate rows: profileEmbedding 0 (NULL) or the unit vector 1 (2 once re-embedded).
CandRows ==
    [profileEmbedding : {0, 1}, skills : {{"python"}}, experience : Experiences,
     location : {<<"Austin", " TX">>}]
PosRows ==
    [descriptionEmbedding : PosEmbeddings, requiredSkills : {<<"python">>},
     preferredSkills : {<<>>}, experienceLevel : {"MID"}, location : {<<"Austin", " TX">>}]

\* The test of compute_matches_for_position: the text starts with '[' and
\* ends with ']'; anything else, and NULL, gives None.
ValidatedEmbedding(raw) ==
    IF raw # <<>> /\ Head(raw) = "[" /\ raw[Len(raw)] = "]" THEN raw ELSE <<>>

\* %(embedding)s::vector succeeds on a bracketed list of numbers.
CastsToVector(text) ==
    /\ Len(text) >= 3 /\ Head(text) = "[" /\ text[Len(text)] = "]"
    /\ \A j \in 2..(Len(text) - 1) : text[j] \in {"0", "1", ","}
    /\ text[2] # "," /\ text[Len(text) - 1] # ","

\* The unit vector a text casts to.
VectorOf(text) == IF text[2] = "1" THEN 1 ELSE 2

\* (1 - (profileEmbedding <=> embedding)) * 100, NULL without a profileEmbedding
\* and in the query that has no vector operator.
SemanticScore(profileEmbedding, embedding) ==
    IF embedding = <<>> \/ profileEmbedding = 0 THEN Null
    ELSE IF profileEmbedding = VectorOf(embedding) THEN 100 ELSE 0

RECURSIVE total_months(_, _)
\* estimate_years_experience: the months of every entry, an ongoing one up to now.
total_months(experience_data, now) ==
    IF experience_data = <<>> THEN 0
    ELSE LET entry == Head(experience_data)
             end == IF entry.endDate = Null THEN now ELSE entry.endDate
             months == end - entry.startDate
         IN (IF months > 0 THEN months ELSE 0) + total_months(Tail(experience_data), now)

\* The rows of the candidate query, before LIMIT.
QueryRows(C, position_embedding, all_skills) ==
    {[id |-> c, semantic_score |-> SemanticScore(C[c].profileEmbedding, position_embedding)] :
        c \in {d \in DOMAIN C : SkillsOverlap(C[d].skills, all_skills)}}

\* The value a row is ordered by; "" is a query without ORDER BY.
SortKey(row, by) == IF by = "" THEN 0 ELSE row[by]

\* The results a LIMIT n (after ORDER BY, best first) or nlargest(n, by) can
\* give: n rows, none of them behind a row that is left out.
TopN(S, n, by) ==
    {T \in SUBSET S :
        /\ Cardinality(T) = Min(n, Cardinality(S))
        /\ \A t \in T, r \in S \ T : SortKey(t, by) >= SortKey(r, by)}

\* The scores of one fetched row: the match record before the min_score test.
ScoreRow(row, C, P, position_id, now) ==
    LET semantic == IF row.semantic_score = Null THEN NeutralScore ELSE row.semantic_score
        skill == score_candidate_skills(C[row.id].skills, P.requiredSkills, P.preferredSkills)
        experience == score_exp(total_months(C[row.id].experience, now), P.experienceLevel)
        loc == score_loc(C[row.id].location, P.location)
    IN [candidateId |-> row.id, positionId |-> position_id,
        overallScore |-> overall_score(semantic, skill, experience, loc),
        semanticScore |-> semantic, skillMatchScore |-> skill,
        experienceScore |-> experience, locationScore |-> loc]

Pair(r) == <<r.candidateId, r.positionId>>

\* ON CONFLICT on a key that also holds the timestamp.
ConflictKeyWithTime(r, m, now) == Pair(r) = Pair(m) /\ r.updatedAt = now

\* ON CONFLICT ("candidateId", "positionId")
Conflicts(r, m, now) == Pair(r) = Pair(m)

\* VALUES (..., [], [], 'Automated match', 'PENDING', now, now)
InsertedRow(m, now) ==
    m @@ [matchReason |-> "Automated match", status |-> "PENDING", reviewedAt |-> 0,
          createdAt |-> now, updatedAt |-> now]

\* DO UPDATE SET every column to the excluded row's.
OnConflictReplace(r, m, now) == InsertedRow(m, now)

\* DO UPDATE SET the five scores and updatedAt.
OnConflictUpdate(r, m, now) ==
    [r EXCEPT !.overallScore = m.overallScore, !.semanticScore = m.semanticScore,
              !.skillMatchScore = m.skillMatchScore, !.experienceScore = m.experienceScore,
              !.locationScore = m.locationScore, !.updatedAt = now]

\* DELETE the rows of the processed positions, then INSERT.
DeleteThenInsert(T, matches, now) ==
    {r \in T : r.positionId \notin {m.positionId : m \in matches}}
        \cup {InsertedRow(m, now) : m \in matches}

\* executemany of the upsert, then commit: the table afterwards.
bulk_upsert_matches(T, matches, now) ==
    {r \in T : \A m \in matches : ~Conflicts(r, m, now)}
        \cup {OnConflictUpdate(rm[1], rm[2], now) :
                rm \in {x \in T \X matches : Conflicts(x[1], x[2], now)}}
        \cup {InsertedRow(m, now) : m \in {x \in matches : \A r \in T : ~Conflicts(r, x, now)}}

\* (a connection in autocommit mode: the rows executemany wrote before the
\* error stay)
CloseKeepsWrittenRows(T, matches, now) ==
    IF matches = {} THEN T
    ELSE (T \ {r \in T : Conflicts(r, CHOOSE m \in matches : TRUE, now)})
            \cup {InsertedRow(CHOOSE m \in matches : TRUE, now)}

\* bulk_upsert_matches raises before conn.commit(): the finally clause closes
\* the connection and its transaction is discarded.
CloseWithoutCommit(T, matches, now) == T

\* The score columns of the table, by pair.
ScoresOf(T) ==
    {<<Pair(r), r.overallScore, r.semanticScore, r.skillMatchScore, r.experienceScore,
       r.locationScore>> : r \in T}

MinScores == {NeutralScore, DefaultMinScore}

MtIdle ==
    /\ mpc = "off" /\ mcause = "" /\ cands = <<>> /\ positions = <<>> /\ today = 0
    /\ mrun = 0 /\ min_score = 0 /\ ppos = 0 /\ all_matches = {} /\ Match = {}
    /\ plog = <<>> /\ history = <<>>

MtInit ==
    /\ mpc = "idle" /\ mcause = ""
    /\ cands \in [CandIds -> CandRows]
    /\ positions \in UNION {[1..k -> PosRows] : k \in 0..MaxPos}
    /\ today = FirstMonth /\ mrun = 0 /\ min_score = DefaultMinScore /\ ppos = 0
    /\ all_matches = {} /\ Match = {} /\ plog = <<>> /\ history = <<>>

MtData == <<cands, positions, today>>
MtCallable == mpc \in {"idle", "returned", "raised"} /\ mrun < MaxRuns

\* find_matches up to the loop; without an open position it returns at once.
FindMatchesCall(ms) ==
    /\ MtCallable
    /\ mrun' = mrun + 1 /\ min_score' = ms
    /\ all_matches' = {} /\ plog' = <<>> /\ mcause' = ""
    /\ IF positions = <<>> THEN mpc' = "returned" /\ ppos' = 0
                           ELSE mpc' = "loop" /\ ppos' = 1
    /\ UNCHANGED <<MtData, Match, history>>
    /\ UNCHANGED notMatch

\* fetch_positions raises (the store is unreachable).
FetchPositionsFails ==
    /\ MtCallable
    /\ mrun' = mrun + 1 /\ mpc' = "raised" /\ mcause' = "positions"
    /\ all_matches' = {} /\ plog' = <<>>
    /\ UNCHANGED <<MtData, min_score, ppos, Match, history>>
    /\ UNCHANGED notMatch

\* One iteration of the loop: compute_matches_for_position of position ppos.
ComputePosition ==
    /\ mpc = "loop" /\ ppos <= Len(positions)
    /\ LET P == positions[ppos]
           embedding == ValidatedEmbedding(P.descriptionEmbedding)
           all_skills == Range(P.requiredSkills) \cup Range(P.preferredSkills)
           rows == QueryRows(cands, embedding, all_skills)
       IN IF embedding # <<>> /\ ~CastsToVector(embedding)
          THEN \* the candidate query raises on ::vector
               /\ mpc' = "raised" /\ mcause' = "cast"
               /\ plog' = Append(plog, [vector |-> TRUE, ok |-> FALSE, semantic |-> {}])
               /\ UNCHANGED <<ppos, all_matches>>
          ELSE \E fetched \in TopN(rows, FetchLimit,
                                    IF embedding = <<>> THEN "" ELSE "semantic_score") :
                 LET scored == {ScoreRow(row, cands, P, ppos, today) : row \in fetched}
                     above == {m \in scored : m.overallScore >= min_score}
                 IN \E kept \in TopN(above, MaxMatchesPerPosition, "overallScore") :
                      /\ all_matches' = all_matches \cup kept
                      /\ plog' = Append(plog, [vector |-> embedding # <<>>, ok |-> TRUE,
                                               semantic |-> {m.semanticScore : m \in scored}])
                      /\ ppos' = ppos + 1
                      /\ UNCHANGED <<mpc, mcause>>
    /\ UNCHANGED <<MtData, mrun, min_score, Match, history>>
    /\ UNCHANGED notMatch

\* The candidate query of position ppos fails in the store.
QueryFails ==
    /\ mpc = "loop" /\ ppos <= Len(positions)
    /\ mpc' = "raised" /\ mcause' = "query"
    /\ plog' = Append(plog, [vector |-> ValidatedEmbedding(positions[ppos].descriptionEmbedding) # <<>>,
                             ok |-> FALSE, semantic |-> {}])
    /\ UNCHANGED <<MtData, mrun, min_score, ppos, all_matches, Match, history>>
    /\ UNCHANGED notMatch

\* After the loop: bulk_upsert_matches if there is a match, then the return.
UpsertAndReturn ==
    /\ mpc = "loop" /\ ppos > Len(positions)
    /\ Match' = IF all_matches # {} THEN bulk_upsert_matches(Match, all_matches, mrun)
                                   ELSE Match
    /\ mpc' = "returned"
    /\ history' = (IF Len(history) < 2 THEN history ELSE Tail(history))
                    \o <<[cands |-> cands, positions |-> positions, today |-> today,
                          min_score |-> min_score, scores |-> ScoresOf(Match')]>>
    /\ UNCHANGED <<MtData, mcause, mrun, min_score, ppos, all_matches, plog>>
    /\ UNCHANGED notMatch

\* bulk_upsert_matches raises: nothing is committed.
UpsertFails ==
    /\ mpc = "loop" /\ ppos > Len(positions) /\ all_matches # {}
    /\ mpc' = "raised" /\ mcause' = "upsert"
    /\ Match' = CloseWithoutCommit(Match, all_matches, mrun)
    /\ UNCHANGED <<MtData, mrun, min_score, ppos, all_matches, plog, history>>
    /\ UNCHANGED notMatch

\* A downstream workflow changes the status of a match between two runs.
Review(r) ==
    /\ MtCallable /\ r \in Match /\ r.status = "PENDING"
    /\ Match' = (Match \ {r}) \cup {[r EXCEPT !.status = "REVIEWED", !.reviewedAt = mrun]}
    /\ UNCHANGED <<MtData, mpc, mcause, mrun, min_score, ppos, all_matches, plog, history>>
    /\ UNCHANGED notMatch

\* A month passes between two runs.
Tick ==
    /\ MtCallable /\ today < FirstMonth + MaxTicks
    /\ today' = today + 1
    /\ UNCHANGED <<cands, positions, mpc, mcause, mrun, min_score, ppos, all_matches,
                   Match, plog, history>>
    /\ UNCHANGED notMatch

\* The embedding backfill writes a candidate's vector between two runs.
Embed(c, v) ==
    /\ MtCallable /\ c \in DOMAIN cands /\ cands[c].profileEmbedding = 0
    /\ cands' = [cands EXCEPT ![c].profileEmbedding = v]
    /\ UNCHANGED <<positions, today, mpc, mcause, mrun, min_score, ppos, all_matches,
                   Match, plog, history>>
    /\ UNCHANGED notMatch

MatchNext ==
    \/ \E ms \in MinScores : FindMatchesCall(ms)
    \/ FetchPositionsFails
    \/ ComputePosition
    \/ QueryFails
    \/ UpsertAndReturn
    \/ UpsertFails
    \/ \E r \in Match : Review(r)
    \/ Tick
    \/ \E c \in CandIds, v \in {1, 2} : Embed(c, v)

----------------------------------------------------------------------------
(* The sync DAG: its tasks, their dependencies and retries                 *)
(* (airflow/dags/bullhorn_sync_dag.py).                                    *)

MaxStreamPages == 2     \* pages a stream loads in one attempt
DagRetries == 3         \* default_args['retries']

Streams == {"stream_consultants", "stream_candidates", "stream_positions"}
Tasks == Streams \cup {"generate_embeddings", "find_matches", "generate_report"}

\* The streams chained one after the other.
UpstreamChained(t) ==
    CASE t = "stream_candidates" -> {"stream_consultants"}
      [] t = "stream_positions" -> {"stream_candidates"}
      [] t = "generate_embeddings" -> Streams
      [] t = "find_matches" -> {"generate_embeddings"}
      [] t = "generate_report" -> {"find_matches"}
      [] OTHER -> {}

\* [streams] >> generate_embeddings >> find_matches >> generate_report
Upstream(t) ==
    CASE t = "generate_embeddings" -> Streams
      [] t = "find_matches" -> {"generate_embeddings"}
      [] t = "generate_report" -> {"find_matches"}
      [] OTHER -> {}

DgIdle == tstate = <<>> /\ try_number = <<>> /\ spage = <<>> /\ stored = <<>>

DgInit ==
    /\ tstate = [t \in Tasks |-> "scheduled"]
    /\ try_number = [t \in Tasks |-> 0]
    /\ spage = [s \in Streams |-> 0]
    /\ stored = [s \in Streams |-> 0]

\* The scheduler starts a task whose upstream tasks all succeeded; a stream
\* starts its loop at the first page, with its own extractor and loader.
TaskStart(t) ==
    /\ tstate # <<>> /\ tstate[t] \in {"scheduled", "up_for_retry"}
    /\ \A u \in Upstream(t) : tstate[u] = "success"
    /\ tstate' = [tstate EXCEPT ![t] = "running"]
    /\ try_number' = [try_number EXCEPT ![t] = @ + 1]
    /\ spage' = IF t \in Streams THEN [spage EXCEPT ![t] = 0] ELSE spage
    /\ UNCHANGED stored
    /\ UNCHANGED notDag

\* One iteration of a stream: the page is fetched, transformed and upserted.
StreamPage(s) ==
    /\ tstate # <<>> /\ s \in Streams /\ tstate[s] = "running"
    /\ spage[s] < MaxStreamPages
    /\ spage' = [spage EXCEPT ![s] = @ + 1]
    /\ stored' = [stored EXCEPT ![s] = Max(@, spage[s] + 1)]
    /\ UNCHANGED <<tstate, try_number>>
    /\ UNCHANGED notDag

\* The callable returns.
TaskSucceeds(t) ==
    /\ tstate # <<>> /\ tstate[t] = "running"
    /\ t \in Streams => spage[t] = MaxStreamPages
    /\ tstate' = [tstate EXCEPT ![t] = "success"]
    /\ UNCHANGED <<try_number, spage, stored>>
    /\ UNCHANGED notDag

\* The callable raises: the task is retried, or fails once its retries are used.
TaskFails(t) ==
    /\ tstate # <<>> /\ tstate[t] = "running"
    /\ tstate' = [tstate EXCEPT ![t] = IF try_number[t] <= DagRetries THEN "up_for_retry"
                                                                     ELSE "failed"]
    /\ UNCHANGED <<try_number, spage, stored>>
    /\ UNCHANGED notDag

\* A task with a failed upstream task is not run.
UpstreamFailed(t) ==
    /\ tstate # <<>> /\ tstate[t] = "scheduled"
    /\ \E u \in Upstream(t) : tstate[u] \in {"failed", "upstream_failed"}
    /\ tstate' = [tstate EXCEPT ![t] = "upstream_failed"]
    /\ UNCHANGED <<try_number, spage, stored>>
    /\ UNCHANGED notDag

DagNext ==
    \E t \in Tasks :
        \/ TaskStart(t)
        \/ StreamPage(t)
        \/ TaskSucceeds(t)
        \/ TaskFails(t)
        \/ UpstreamFailed(t)

----------------------------------------------------------------------------
(* BullhornExtractor._make_authenticated_request, called by an extraction
   method that tenacity runs up to three times *)

MaxTokens == 6      \* authenticate hands out the tokens 1..MaxTokens
MaxTrace == 6       \* most steps recorded for one call
RequestAttempts == 3  \* stop_after_attempt(3) of the calling method
AuthRequests == {"consultants?page=0", "consultants?page=1"}
Statuses == {200, 401, 500}

AuIdle ==
    /\ apc = "off" /\ bh_rest_token = 0 /\ areq = "" /\ aattempt = 0
    /\ heldAtEntry = 0 /\ ctrace = <<>>

\* A new extractor holds no token; an extractor that was used holds one.
AuInit ==
    /\ apc = "enter"
    /\ bh_rest_token \in {0, 1}
    /\ areq \in AuthRequests
    /\ aattempt = 1
    /\ heldAtEntry = bh_rest_token
    /\ ctrace = <<>>

\* What a successful authenticate stores: a token the extractor did not hold.
NewToken == bh_rest_token + 1

AuthEvent(why, ok) == [e |-> "authenticate", why |-> why, ok |-> ok]
RequestEvent(status) ==
    [e |-> "request", attempt |-> aattempt, req |-> areq, token |-> bh_rest_token,
     status |-> status]

\* if not self.bh_rest_token: self.authenticate()
Acquire ==
    /\ apc = "enter" /\ bh_rest_token = 0 /\ bh_rest_token < MaxTokens
    /\ bh_rest_token' = NewToken
    /\ ctrace' = Append(ctrace, AuthEvent("none held", TRUE))
    /\ apc' = "request"
    /\ UNCHANGED <<areq, aattempt, heldAtEntry>>
    /\ UNCHANGED notAuth

\* a token is held: the request is sent with it
UseHeld ==
    /\ apc = "enter" /\ bh_rest_token # 0
    /\ apc' = "request"
    /\ UNCHANGED <<bh_rest_token, areq, aattempt, heldAtEntry, ctrace>>
    /\ UNCHANGED notAuth

\* authenticate raises (its own three attempts failed): the call ends with its error
AuthenticateFails ==
    /\ \/ apc = "enter" /\ bh_rest_token = 0
       \/ apc = "reauthenticate"
    /\ Len(ctrace) < MaxTrace
    /\ ctrace' = Append(ctrace, AuthEvent(IF apc = "enter" THEN "none held" ELSE "401", FALSE))
    /\ apc' = "error"
    /\ UNCHANGED <<bh_rest_token, areq, aattempt, heldAtEntry>>
    /\ UNCHANGED notAuth

\* (a call that would re-authenticate after every 401)
AfterResponseLoop(pos, status) ==
    IF status = 401 THEN "reauthenticate"
    ELSE IF status >= 400 THEN "error" ELSE "returned"

\* Where the call goes after a response: only the first response is tested
\* for 401; then raise_for_status decides.
AfterResponse(pos, status) ==
    IF pos = "request" /\ status = 401 THEN "reauthenticate"
    ELSE IF status >= 400 THEN "error" ELSE "returned"

\* requests.request(...), the first time or after the re-authentication
Send(status) ==
    /\ apc \in {"request", "resend"}
    /\ Len(ctrace) < MaxTrace
    /\ ctrace' = Append(ctrace, RequestEvent(status))
    /\ apc' = AfterResponse(apc, status)
    /\ UNCHANGED <<bh_rest_token, areq, aattempt, heldAtEntry>>
    /\ UNCHANGED notAuth

\* status 401: self.authenticate(); headers['BhRestToken'] = self.bh_rest_token
Reauthenticate ==
    /\ apc = "reauthenticate" /\ bh_rest_token < MaxTokens
    /\ Len(ctrace) < MaxTrace
    /\ bh_rest_token' = NewToken
    /\ ctrace' = Append(ctrace, AuthEvent("401", TRUE))
    /\ apc' = "resend"
    /\ UNCHANGED <<areq, aattempt, heldAtEntry>>
    /\ UNCHANGED notAuth

\* tenacity runs the calling method again: a new call of _make_authenticated_request
RetryCall ==
    /\ apc = "error" /\ aattempt < RequestAttempts
    /\ aattempt' = aattempt + 1
    /\ heldAtEntry' = bh_rest_token
    /\ ctrace' = <<>>
    /\ apc' = "enter"
    /\ UNCHANGED <<bh_rest_token, areq>>
    /\ UNCHANGED notAuth

\* the third attempt failed: the error reaches the caller of the extraction
GiveUp ==
    /\ apc = "error" /\ aattempt = RequestAttempts
    /\ apc' = "raised"
    /\ UNCHANGED <<bh_rest_token, areq, aattempt, heldAtEntry, ctrace>>
    /\ UNCHANGED notAuth

AuthNext ==
    \/ Acquire
    \/ UseHeld
    \/ AuthenticateFails
    \/ \E status \in Statuses : Send(status)
    \/ Reauthenticate
    \/ RetryCall
    \/ GiveUp

----------------------------------------------------------------------------
(* BullhornTransformer.transform_consultants and transform_candidates      *)
(* (the two differ in the columns they carry, not in their steps)          *)

MaxPageLen == 3     \* longest raw page

\* A raw record: its 'bullhornId' ("" when absent or empty), its 'id' (0 when
\* absent), its 'email' and, standing for the other columns, its 'phone'.
RawRecords == [bullhornId : {"", "7"}, id : {0, 7, 8}, email : {" A@x.io", "a@x.io"},
               phone : {1, 2}]
RawPages == UNION {[1..m -> RawRecords] : m \in 0..MaxPageLen}

\* str(raw.get('id', ''))
StrOfId(id) == CASE id = 0 -> "" [] id = 7 -> "7" [] id = 8 -> "8"

\* df['email'].str.lower().str.strip()
CleanEmail(email) == IF email = " A@x.io" THEN "a@x.io" ELSE email

\* transform_consultant: 'bullhornId': raw.get('bullhornId') or str(raw.get('id', ''))
transform_record(raw) ==
    [bullhornId |-> IF raw.bullhornId # "" THEN raw.bullhornId ELSE StrOfId(raw.id),
     email |-> raw.email, phone |-> raw.phone]

\* drop_duplicates(subset=['bullhornId'], keep='first')
RECURSIVE DropDuplicatesKeepFirst(_)
DropDuplicatesKeepFirst(rows) ==
    IF rows = <<>> THEN <<>>
    ELSE <<rows[1]>> \o DropDuplicatesKeepFirst(
             SelectSeq(Tail(rows), LAMBDA r : r.bullhornId # rows[1].bullhornId))

\* drop_duplicates(subset=['bullhornId'], keep='last')
RECURSIVE drop_duplicates(_)
drop_duplicates(rows) ==
    IF rows = <<>> THEN <<>>
    ELSE IF \E j \in 2..Len(rows) : rows[j].bullhornId = rows[1].bullhornId
         THEN drop_duplicates(Tail(rows))
         ELSE <<rows[1]>> \o drop_duplicates(Tail(rows))

TrIdle == raw_page = <<>> /\ tdf = <<>>
TrInit == raw_page \in RawPages /\ tdf = <<>>

\* transform_consultants(raw_consultants): an empty list gives an empty frame
transform_page ==
    /\ tdf = <<>>
    /\ LET transformed == [i \in DOMAIN raw_page |-> transform_record(raw_page[i])]
           cleaned == [i \in DOMAIN transformed |->
                          [transformed[i] EXCEPT !.email = CleanEmail(@)]]
       IN tdf' = <<drop_duplicates(cleaned)>>
    /\ UNCHANGED raw_page
    /\ UNCHANGED notTransform

TransformNext == transform_page

----------------------------------------------------------------------------
(* BullhornExtractor._extract_content applied to one response *)

MaxContent == 12    \* longest array of a response

EcIdle == ecIn = [shape |-> "other", n |-> 0] /\ ecOut = <<>>
EcInit == ecIn \in [shape : Shapes, n : 0..MaxContent] /\ ecOut = <<>>

ExtractContentCall ==
    /\ ecOut = <<>>
    /\ ecOut' = <<extract_content(ecIn)>>
    /\ UNCHANGED ecIn
    /\ UNCHANGED notContent

ContentNext == ExtractContentCall

----------------------------------------------------------------------------
(* The last steps of MatchingService.compute_matches_for_position: the     *)
(* min_score filter and nlargest over the scored candidates_df.            *)

MaxFetched == 3     \* rows of the scored candidates_df
MaxMatches == 2     \* largest max_matches

OverallScores == {60, 70, 80}

\* One row per fetched candidate: the query selects from "Candidate" alone,
\* so no id occurs twice.
ScoredFrames ==
    {cdf \in UNION {[1..k -> [id : 1..MaxFetched, overall_score : OverallScores]] :
                       k \in 0..MaxFetched} :
        \A i, j \in DOMAIN cdf : cdf[i].id = cdf[j].id => i = j}

\* candidates_df[candidates_df['overall_score'] >= min_score]
FilterMinScore(cdf, min) == SelectSeq(cdf, LAMBDA r : r.overall_score >= min)

RemoveAt(cdf, i) == SubSeq(cdf, 1, i - 1) \o SubSeq(cdf, i + 1, Len(cdf))

\* The first n rows of the frame as it stands.
HeadN(cdf, n) == SubSeq(cdf, 1, Min(n, Len(cdf)))

RECURSIVE nlargest(_, _)
\* candidates_df.nlargest(max_matches, 'overall_score'): the n rows with the
\* largest values, largest first, equal values in frame order (keep='first').
nlargest(cdf, n) ==
    IF n = 0 \/ cdf = <<>> THEN <<>>
    ELSE LET i == CHOOSE k \in DOMAIN cdf :
                    /\ \A j \in DOMAIN cdf : cdf[j].overall_score <= cdf[k].overall_score
                    /\ \A j \in 1..(k - 1) : cdf[j].overall_score < cdf[k].overall_score
         IN <<cdf[i]>> \o nlargest(RemoveAt(cdf, i), n - 1)

\* for _, row in candidates_df.iterrows(): matches.append({...})
MatchRecords(cdf) == [i \in DOMAIN cdf |-> [candidateId |-> cdf[i].id,
                                           overallScore |-> cdf[i].overall_score]]

TmIdle == tmIn = <<>> /\ tmOut = <<>>

TmInit ==
    /\ tmIn \in [df : ScoredFrames, min_score : MinScores, max_matches : 1..MaxMatches]
    /\ tmOut = <<>>

TopMatches ==
    /\ tmIn # <<>> /\ tmOut = <<>>
    /\ tmOut' = <<MatchRecords(nlargest(FilterMinScore(tmIn.df, tmIn.min_score),
                                        tmIn.max_matches))>>
    /\ UNCHANGED tmIn
    /\ UNCHANGED notTop

TopNext == TopMatches

----------------------------------------------------------------------------
(* The statement built by BulkDatabaseLoader._build_upsert_sql, applied to  *)
(* the Candidate and Position tables (schemas of loaders/mappers.py).       *)

MaxClock == 4       \* statements executed, counted from 1
MaxSqlKey == 2      \* natural keys 1..MaxSqlKey
MaxVersion == 2     \* versions of a source record

CANDIDATE_SCHEMA ==
    [table_name |-> "Candidate",
     columns |-> <<"id", "bullhornId", "firstName", "lastName", "email", "phone", "skills",
                   "experience", "education", "location", "status", "lastSyncedAt",
                   "createdAt", "updatedAt">>,
     conflict_column |-> "bullhornId",
     update_columns |-> <<"firstName", "lastName", "email", "phone", "skills", "experience",
                          "education", "location", "status", "lastSyncedAt">>,
     template |-> <<"%s", "%s", "%s", "%s", "%s", "%s", "%s", "%s", "%s", "%s", "%s",
                    "NOW()", "NOW()", "NOW()">>]

POSITION_SCHEMA ==
    [table_name |-> "Position",
     columns |-> <<"id", "bullhornId", "title", "description", "employmentType",
                   "requiredSkills", "preferredSkills", "experienceLevel", "location",
                   "salary", "clientName", "clientBullhornId", "status", "openDate",
                   "closeDate", "lastSyncedAt", "createdAt", "updatedAt">>,
     conflict_column |-> "bullhornId",
     update_columns |-> <<"title", "description", "employmentType", "requiredSkills",
                          "preferredSkills", "experienceLevel", "location", "salary",
                          "clientName", "clientBullhornId", "status", "openDate",
                          "closeDate", "lastSyncedAt">>,
     template |-> <<"%s", "%s", "%s", "%s", "%s", "%s", "%s", "%s", "%s", "%s", "%s", "%s",
                    "%s", "%s", "%s", "NOW()", "NOW()", "NOW()">>]

Schemas == {CANDIDATE_SCHEMA, POSITION_SCHEMA}

\* The vector column of the table; the loader's schemas do not name it.
EmbeddingColumn(schema) ==
    IF schema.table_name = "Candidate" THEN "profileEmbedding" ELSE "descriptionEmbedding"

\* Column values, tagged by kind.
SqlNull == <<"null", 0>>
SqlTime(t) == <<"time", t>>
SqlKey(k) == <<"key", k>>
Cuid(n) == <<"cuid", n>>

\* mapper.to_record: cuid(), row["bullhornId"], then the mapped fields.
SqlRecord(schema, key, version, n) ==
    [i \in 1..Cardinality({j \in DOMAIN schema.template : schema.template[j] = "%s"}) |->
        IF i = 1 THEN Cuid(n) ELSE IF i = 2 THEN SqlKey(key) ELSE <<"field", version>>]

\* INSERT INTO table (cols) VALUES template: the proposed row (EXCLUDED); a
\* column the statement does not name takes its default, NULL.
ValuesRow(schema, record, now) ==
    LET slot(i) == Cardinality({j \in 1..i : schema.template[j] = "%s"})
        pos(c) == CHOOSE i \in DOMAIN schema.columns : schema.columns[i] = c
    IN [c \in Range(schema.columns) \cup {EmbeddingColumn(schema)} |->
          IF c \notin Range(schema.columns) THEN SqlNull
          ELSE IF schema.template[pos(c)] = "NOW()" THEN SqlTime(now)
          ELSE record[slot(pos(c))]]

\* (a SET list that names every column of the INSERT)
UpdateSetAllColumns(schema) == Range(schema.columns)

\* The columns of DO UPDATE SET: update_columns, and updatedAt in any case.
UpdateSet(schema) == Range(schema.update_columns) \cup {"updatedAt"}

\* DO UPDATE SET "c" = EXCLUDED."c", "updatedAt" = NOW()
OnConflictDoUpdate(row, excluded, schema, now) ==
    [c \in DOMAIN row |->
        IF c \notin UpdateSet(schema) THEN row[c]
        ELSE IF c = "updatedAt" THEN SqlTime(now)
        ELSE excluded[c]]

\* INSERT ... ON CONFLICT (conflict_column) DO UPDATE for one record.
UpsertStatement(tbl, schema, record, now) ==
    LET excluded == ValuesRow(schema, record, now)
        hit == {r \in tbl : r[schema.conflict_column] = excluded[schema.conflict_column]}
    IN IF hit = {} THEN tbl \cup {excluded}
       ELSE (tbl \ hit) \cup {OnConflictDoUpdate(r, excluded, schema, now) : r \in hit}

SqIdle == sqSchema = <<>> /\ sqTable = {} /\ sqClock = 0

SqInit == sqSchema \in Schemas /\ sqTable = {} /\ sqClock = 1

\* A sync loads one source record into the table.
SqlUpsert(key, version) ==
    /\ sqClock \in 1..(MaxClock - 1)
    /\ sqTable' = UpsertStatement(sqTable, sqSchema,
                                  SqlRecord(sqSchema, key, version, sqClock), sqClock)
    /\ sqClock' = sqClock + 1
    /\ UNCHANGED sqSchema
    /\ UNCHANGED notSql

\* The embedding backfill writes the vector of a row that has none.
SqlEmbed(key) ==
    /\ sqClock >= 1
    /\ \E r \in sqTable :
        /\ r.bullhornId = SqlKey(key) /\ r[EmbeddingColumn(sqSchema)] = SqlNull
        /\ sqTable' = (sqTable \ {r})
                        \cup {[r EXCEPT ![EmbeddingColumn(sqSchema)] = <<"vector", sqClock>>]}
    /\ UNCHANGED <<sqSchema, sqClock>>
    /\ UNCHANGED notSql

SqlNext ==
    \/ \E key \in 1..MaxSqlKey, version \in 1..MaxVersion : SqlUpsert(key, version)
    \/ \E key \in 1..MaxSqlKey : SqlEmbed(key)

----------------------------------------------------------------------------
(* Specifications *)

\* One caller, long inputs.
InitUpsert == UpInit(TRUE) /\ MergeIdle /\ ExIdle /\ BfIdle /\ OvIdle /\ ScIdle /\ MtIdle /\ DgIdle /\ AuIdle /\ TrIdle /\ EcIdle /\ TmIdle /\ SqIdle
SpecUpsert == InitUpsert /\ [][UpsertNext]_vars
\* Two callers with their own connections, short inputs, repeated calls.
InitConc == UpInit(FALSE) /\ MergeIdle /\ ExIdle /\ BfIdle /\ OvIdle /\ ScIdle /\ MtIdle /\ DgIdle /\ AuIdle /\ TrIdle /\ EcIdle /\ TmIdle /\ SqIdle
SpecConc == InitConc /\ [][UpsertNext]_vars
\* The merge laws.
InitMerge == MergeInit /\ UpIdle /\ ExIdle /\ BfIdle /\ OvIdle /\ ScIdle /\ MtIdle /\ DgIdle /\ AuIdle /\ TrIdle /\ EcIdle /\ TmIdle /\ SqIdle
SpecMerge == InitMerge /\ [][MergeNext]_vars
\* One call of a paginated extraction or of a streaming task.
InitExtract == ExIdle /\ MergeIdle /\ UpIdle /\ BfIdle /\ OvIdle /\ ScIdle /\ MtIdle /\ DgIdle /\ AuIdle /\ TrIdle /\ EcIdle /\ TmIdle /\ SqIdle
SpecExtract == InitExtract /\ [][ExtractNext]_vars
\* Backfill runs, one after the other.
InitBackfill == BfInit /\ MergeIdle /\ UpIdle /\ ExIdle /\ OvIdle /\ ScIdle /\ MtIdle /\ DgIdle /\ AuIdle /\ TrIdle /\ EcIdle /\ TmIdle /\ SqIdle
SpecBackfill == InitBackfill /\ [][BackfillNext]_vars
\* The same, with every step taken and retried calls eventually succeeding.
SpecBackfillFair == SpecBackfill /\ BackfillFairness
\* Two backfill runs of one entity type that overlap.
\* (candidates, the largest batch size and worker pool of the model)
InitOverlap ==
    /\ BfInit /\ OvInit /\ MergeIdle /\ UpIdle /\ ExIdle /\ ScIdle /\ MtIdle /\ DgIdle /\ AuIdle /\ TrIdle /\ EcIdle /\ TmIdle /\ SqIdle
    /\ entity = "candidate" /\ bf_batch_size = MaxBfBatch /\ max_workers = MaxWorkers
SpecOverlap == InitOverlap /\ [][OverlapNext]_vars
\* The scoring functions applied to inputs drawn from the sets above.
InitScore == ScInit /\ MergeIdle /\ UpIdle /\ ExIdle /\ BfIdle /\ OvIdle /\ MtIdle /\ DgIdle /\ AuIdle /\ TrIdle /\ EcIdle /\ TmIdle /\ SqIdle
SpecScore == InitScore /\ [][ScoreNext]_vars
\* Runs of find_matches, one after the other, with the store changing in between.
InitMatch == MtInit /\ MergeIdle /\ UpIdle /\ ExIdle /\ BfIdle /\ OvIdle /\ ScIdle /\ DgIdle /\ AuIdle /\ TrIdle /\ EcIdle /\ TmIdle /\ SqIdle
SpecMatch == InitMatch /\ [][MatchNext]_vars
\* One run of the sync DAG.
InitDag == DgInit /\ MergeIdle /\ UpIdle /\ ExIdle /\ BfIdle /\ OvIdle /\ ScIdle /\ MtIdle /\ AuIdle /\ TrIdle /\ EcIdle /\ TmIdle /\ SqIdle
SpecDag == InitDag /\ [][DagNext]_vars
\* Calls of _make_authenticated_request made by one extraction method.
InitAuth == AuInit /\ MergeIdle /\ UpIdle /\ ExIdle /\ BfIdle /\ OvIdle /\ ScIdle /\ MtIdle /\ DgIdle /\ TrIdle /\ EcIdle /\ TmIdle /\ SqIdle
SpecAuth == InitAuth /\ [][AuthNext]_vars
\* transform_consultants applied to one raw page.
InitTransform == TrInit /\ MergeIdle /\ UpIdle /\ ExIdle /\ BfIdle /\ OvIdle /\ ScIdle /\ MtIdle /\ DgIdle /\ AuIdle /\ EcIdle /\ TmIdle /\ SqIdle
SpecTransform == InitTransform /\ [][TransformNext]_vars
\* _extract_content applied to every response shape.
InitContent == EcInit /\ MergeIdle /\ UpIdle /\ ExIdle /\ BfIdle /\ OvIdle /\ ScIdle /\ MtIdle /\ DgIdle /\ AuIdle /\ TrIdle /\ TmIdle /\ SqIdle
SpecContent == InitContent /\ [][ContentNext]_vars
\* The filter and nlargest of compute_matches_for_position on scored frames.
InitTop == TmInit /\ MergeIdle /\ UpIdle /\ ExIdle /\ BfIdle /\ OvIdle /\ ScIdle /\ MtIdle /\ DgIdle /\ AuIdle /\ TrIdle /\ EcIdle /\ SqIdle
SpecTop == InitTop /\ [][TopNext]_vars
\* Upsert statements and embedding writes on one table.
InitSql == SqInit /\ MergeIdle /\ UpIdle /\ ExIdle /\ BfIdle /\ OvIdle /\ ScIdle /\ MtIdle /\ DgIdle /\ AuIdle /\ TrIdle /\ EcIdle /\ TmIdle
SpecSql == InitSql /\ [][SqlNext]_vars

----------------------------------------------------------------------------
(* Claims about bulk_upsert and UpsertResult *)

Ended(c) == pc[c] \in {"returned", "raised"}
ChunkCount(c) == NumChunks(df[c], batch_size[c])
RecordsOf(c, k) == RecordIdx(df[c], batch_size[c], k)

\* Number of records (valid rows) in the chunks S of the current call of c.
RECURSIVE RecordsIn(_, _)
RecordsIn(c, S) ==
    IF S = {} THEN 0
    ELSE LET k == CHOOSE y \in S : TRUE
         IN Len(RecordsOf(c, k)) + RecordsIn(c, S \ {k})

\* Row i of the current call of c is persisted: the committed row of its key
\* carries the payload of row i, or of a later row of the same key that a
\* successful chunk of the same call wrote over it.
Persisted(c, i) ==
    \E r \in table :
        /\ r.bullhornId = df[c][i].bullhornId
        /\ <<r.data[1], r.data[2]>> = Who(c)
        /\ r.data[3] >= i
        /\ chunkLog[c][ChunkOf(batch_size[c], r.data[3])] = "ok"

\* No committed row carries the payload of a record of chunk k of the current call.
ChunkAbsent(c, k) ==
    \A r \in table : \A i \in Range(RecordsOf(c, k)) : r.data # Tag(Who(c), i)

FailedChunks(c) == {k \in 1..Len(chunkLog[c]) : chunkLog[c][k] = "failed"}
FailedRows(c) == RecordsIn(c, FailedChunks(c))

\* C1: every call of bulk_upsert that returns accounts for each input row
\* exactly once: inserted + updated + failed + skipped = len(df).
C1_RowsAccounted ==
    \A c \in Callers : pc[c] = "returned" => Accounted(result[c]) = Len(df[c])

C1_Witness ==
    /\ pc[1] = "returned"
    /\ result[1].skipped > 0
    /\ result[1].failed > 0
    /\ result[1].inserted + result[1].updated > 0
    /\ \E k \in 1..ChunkCount(1) :
        chunkLog[1][k] = "failed" /\ SkippedIn(df[1], batch_size[1], k) > 0

C3_RaisesOnlyForConnection ==
    \A c \in Callers : pc[c] = "raised" => cause[c] \in {"connect", "commit"}

\* C4: merge is associative and commutative, UpsertResult() is its identity,
\* it is the pairwise sum, and it leaves its operands as they were.
C4_MergeMonoid ==
    mRes # <<>> =>
        /\ mRes[1].ab_c = mRes[1].a_bc
        /\ mRes[1].ab = mRes[1].ba
        /\ mRes[1].a0 = mA
        /\ mRes[1].z0a = mA
        /\ \A f \in DOMAIN mA : mRes[1].ab[f] = mA[f] + mB[f]
        /\ <<mA, mB, mC>> = mOrig

C4_Witness ==
    /\ mRes # <<>>
    /\ mA.failed = 1 /\ mB.failed = 0 /\ mB.inserted = 1 /\ mC.skipped = 2
    /\ mRes[1].ab_c = [inserted |-> 1, updated |-> 0, failed |-> 1, skipped |-> 2,
                      total_batches |-> mA.total_batches + mB.total_batches + mC.total_batches]

ValidKeys(d) == {d[i].bullhornId : i \in {j \in 1..Len(d) : validate(d[j])}}
OkRecords(c) == RecordsIn(c, {k \in 1..Len(chunkLog[c]) : chunkLog[c][k] = "ok"})

\* The input of the current call of c was applied before: each of its valid
\* natural keys was committed when the call started.
AlreadyApplied(c) == ValidKeys(df[c]) \subseteq startKeys[c]

\* C5: the table never holds two rows with one natural key, whatever calls ran
\* or are running; a call whose input was already applied adds no row and
\* counts its written rows as updated, none as inserted.
C5_OneRowPerKey ==
    /\ \A r1, r2 \in table : r1.bullhornId = r2.bullhornId => r1 = r2
    /\ \A c \in Callers : pc[c] = "returned" /\ AlreadyApplied(c) =>
        /\ added[c] = 0
        /\ result[c].inserted = 0
        /\ result[c].updated = OkRecords(c)

\* The first caller re-applied its input while the second caller's call, on
\* the same key, was committed in between.
C5_Witness ==
    /\ pc[1] = "returned" /\ callNo[1] = 2 /\ AlreadyApplied(1)
    /\ result[1].updated > 0
    /\ pc[2] = "returned" /\ result[2].updated > 0
    /\ ValidKeys(df[1]) \cap ValidKeys(df[2]) # {}
    /\ \E r \in table : <<r.data[1], r.data[2]>> = Who(1)

----------------------------------------------------------------------------
(* Claims about paginated extraction *)

\* The <<page, n>> segments of the non-empty pages of a request log, in order.
RECURSIVE SegmentsOf(_)
SegmentsOf(log) ==
    IF log = <<>> THEN <<>>
    ELSE IF log[1].n > 0 THEN <<<<log[1].page, log[1].n>>>> \o SegmentsOf(Tail(log))
    ELSE SegmentsOf(Tail(log))

\* The first three requests were served 1,000, 1,000 and 500 records.
ServedTwoAndAHalfPages ==
    /\ page_size = DefaultPageSize
    /\ Len(fetchLog) >= 3
    /\ <<fetchLog[1].n, fetchLog[2].n, fetchLog[3].n>> = <<1000, 1000, 500>>

\* C6: a non-empty page with fewer than page_size records is the last request
\* of the loop, which then stops; extract_*_paginated returns the records of
\* all pages it fetched; pages of 1,000/1,000/500 make exactly 3 requests and
\* 2,500 records (a stream reports 3 pages and the records left after its
\* deduplication).
C6_PartialPageStops ==
    /\ \A i \in 1..Len(fetchLog) :
        fetchLog[i].n > 0 /\ fetchLog[i].n < page_size => i = Len(fetchLog) /\ xpc # "loop"
    /\ xpc = "returned" /\ ~IsStream(fn) => xret[1] = SegmentsOf(fetchLog)
    /\ ServedTwoAndAHalfPages =>
        /\ Len(fetchLog) = 3
        /\ xpc # "loop"
        /\ xpc = "returned" /\ ~IsStream(fn) => TotalOf(xret[1]) = 2500
        /\ xpc = "returned" /\ IsStream(fn) =>
            xret[1].pages = 3 /\ xret[1].processed \in 2497..2500

C6_Witness ==
    /\ xpc = "returned"
    /\ fn = "extract_candidates_paginated"
    /\ priorFetches = 0
    /\ ServedTwoAndAHalfPages
    /\ xret = << <<<<0, 1000>>, <<1, 1000>>, <<2, 500>>>> >>

----------------------------------------------------------------------------
(* Claims about the embedding backfill *)

Batches == DOMAIN wstate
AllEmbedded == \A id \in RecIds : vector[id] = 1
\* The batch's worker returned an error result (request or write-back failed).
FailedInCall(b) == wresult[b] # <<>> /\ wresult[b][1].errors > 0
\* What the main thread adds to the totals for batch b.
Contribution(b) ==
    IF wresult[b] # <<>> THEN wresult[b][1] ELSE Stats(0, 0, bf_batch_size)

RECURSIVE SumContributions(_)
SumContributions(S) ==
    IF S = {} THEN Stats(0, 0, 0)
    ELSE LET b == CHOOSE x \in S : TRUE
             rest == SumContributions(S \ {b})
         IN Stats(rest.processed + Contribution(b).processed,
                  rest.updated + Contribution(b).updated,
                  rest.errors + Contribution(b).errors)

\* C7: in a run that returned, a batch whose request or write-back failed
\* counted exactly its records as errors and wrote no vector, every batch was
\* handled, processed + errors is the number of records selected and
\* processed = updated.
C7_FailedBatchCountsItsRecords ==
    bpc = "returned" /\ selected # <<>> =>
        /\ \A b \in Batches : FailedInCall(b) =>
            /\ wresult[b][1] = Stats(0, 0, Len(CurBatch(b)))
            /\ \A id \in Range(CurBatch(b)) : vector[id] = 0
        /\ \A b \in Batches : wstate[b] = "collected"
        /\ bret[1].processed + bret[1].errors = Len(selected)
        /\ bret[1].processed = bret[1].updated

\* C8: the totals are the sum of the batches' contributions, each batch
\* counted once, whatever the order in which the batches were collected.
C8_TotalsOrderIndependent ==
    /\ bpc = "pool" =>
        /\ totals = SumContributions(Range(order))
        /\ \A i, j \in 1..Len(order) : order[i] = order[j] => i = j
    /\ bpc = "returned" /\ selected # <<>> =>
        /\ Range(order) = Batches /\ Len(order) = Cardinality(Batches)
        /\ bret = <<SumContributions(Batches)>>

\* The second batch completed and was collected before the first.
C8_Witness ==
    /\ bpc = "returned"
    /\ Len(order) >= 2 /\ order[1] = 2 /\ order[2] = 1
    /\ bret[1].processed > 0 /\ bret[1].errors > 0

\* C9: a run started when no record has a NULL vector returns zeros, starts
\* no batch, sends no request and writes nothing.
C9_NoNullVectorNoOp ==
    bpc # "idle" /\ nullsAtStart = 0 =>
        /\ bpc \in {"returned", "raised"}
        /\ bpc = "returned" => bret = <<Stats(0, 0, 0)>>
        /\ selected = <<>> /\ Batches = {}
        /\ requests = 0 /\ writes = 0
        /\ AllEmbedded

\* A run over a store that an earlier run has fully embedded.
C9_Witness ==
    /\ bpc = "returned" /\ nullsAtStart = 0
    /\ lastRun # <<>> /\ lastRun[1].processed > 0
    /\ bret = <<Stats(0, 0, 0)>>

\* C10: with every step taken and retried requests and write-backs eventually
\* succeeding, eventually every record has a vector and from then on no run
\* starts a batch, sends a request or writes.
C10_BackfillConverges ==
    <>[](AllEmbedded /\ bpc # "pool" /\ requests = 0 /\ writes = 0)

\* C11: whatever runs took place or overlap, no record is sent to the
\* embedding service while its vector is already set, and no set vector is
\* written again.
C11_VectorComputedOnce == resent = {} /\ overwritten = {}

----------------------------------------------------------------------------
(* Claims about the scoring functions *)

Scored(f) == sfn = f /\ sout # <<>>
CountIn(skills, canonical) ==
    Cardinality({j \in DOMAIN skills : canonicalize_skill(skills[j]) \in canonical})
\* (2*matchedRequired + matchedPreferred) / (2*totalRequired + totalPreferred) * 100
WeightedOverlap(cand, req, pref) ==
    LET canonical == {canonicalize_skill(k) : k \in cand}
        total == 2 * Len(req) + Len(pref)
    IN IF total = 0 THEN 0
       ELSE PyRoundPercent(2 * CountIn(req, canonical) + CountIn(pref, canonical), total)
SpecExampleSkills ==
    /\ skIn.cand = {"py", "reactjs"}
    /\ Range(skIn.req) = {"python", "react"} /\ Len(skIn.req) = 2
    /\ skIn.pref = <<"aws">>

LevelOfMonths(months) == 1 + Cardinality({y \in {2, 5, 8, 12} : months >= 12 * y})
DistanceScore(diff) == CASE diff = 0 -> 100 [] diff = 1 -> 75 [] diff = 2 -> 50 [] OTHER -> 25
KnownExperience ==
    /\ Scored("experience") /\ exIn.months > 0
    /\ Upper(exIn.target) \in DOMAIN EXPERIENCE_LEVELS
ExperienceLadder ==
    KnownExperience =>
        sout[1] = DistanceScore(Abs(LevelOfMonths(exIn.months)
                                    - EXPERIENCE_LEVELS[Upper(exIn.target)]))
SeniorSixYears == Scored("experience") /\ exIn.target = "SENIOR" /\ exIn.months = 6 * 12

\* C19 (as stated): years are bucketed into five levels by <2, <5, <8, <12,
\* >=12, the distance to the target level scores 0->100, 1->75, 2->50,
\* otherwise 25, and SENIOR with 6 years scores 75.
C19_SeniorSixYearsIs75 == ExperienceLadder /\ (SeniorSixYears => sout[1] = 75)

\* C19 (amended): the same ladder; SENIOR with 6 years is level 3 against
\* target 3, distance 0, and scores 100.
C19_SeniorSixYearsIs100 == ExperienceLadder /\ (SeniorSixYears => sout[1] = 100)
C19_Witness == SeniorSixYears /\ sout = <<100>>

FirstSegment(loc) == Strip(Lower(loc[1]))
LastSegment(loc) == Strip(Lower(loc[Len(loc)]))
\* The ladder of the location score; the last segments count only if sameRegion.
LocationLadder(t, c, sameRegion) ==
    IF HasRemote(t) \/ HasRemote(c) \/ LowerLoc(t) = LowerLoc(c) THEN 100
    ELSE IF FirstSegment(t) = FirstSegment(c) THEN 80
    ELSE IF sameRegion THEN 60
    ELSE 30
LocExamples ==
    /\ (locIn.target = <<"Austin", " TX">> /\ locIn.cand = <<"Austin", " TX">>) => sout[1] = 100
    /\ (locIn.target = <<"Austin", " TX">> /\ locIn.cand = <<"Dallas", " TX">>) => sout[1] = 60
    /\ (locIn.target = <<"Austin", " TX">> /\ locIn.cand = <<"Remote">>) => sout[1] = 100
    /\ (locIn.target = <<"Boston", " MA">> /\ locIn.cand = <<"Seattle", " WA">>) => sout[1] = 30

\* C20 (as stated): for every pair of locations the score is 100 (remote or
\* equal ignoring case), else 80 (first segments equal), else 60 (last
\* segments equal), else 30; 50 without a target location; the four examples.
C20_LocationLadder ==
    Scored("location") =>
        /\ locIn.target = <<>> => sout[1] = 50
        /\ (locIn.target # <<>> /\ locIn.cand # <<>>) =>
              sout[1] = LocationLadder(locIn.target, locIn.cand,
                                       LastSegment(locIn.target) = LastSegment(locIn.cand))
        /\ LocExamples

\* C20 (amended): the last segments count only when both locations have at
\* least two segments, and a candidate without a location scores 50.
C20_LocationLadderOfTwoSegments ==
    Scored("location") =>
        /\ (locIn.target = <<>> \/ locIn.cand = <<>>) => sout[1] = 50
        /\ (locIn.target # <<>> /\ locIn.cand # <<>>) =>
              sout[1] = LocationLadder(locIn.target, locIn.cand,
                                       /\ Len(locIn.target) >= 2 /\ Len(locIn.cand) >= 2
                                       /\ LastSegment(locIn.target) = LastSegment(locIn.cand))
        /\ LocExamples
C20_Witness ==
    /\ Scored("location") /\ sout = <<30>>
    /\ locIn.target = <<"TX">> /\ locIn.cand = <<"Dallas", " TX">>

----------------------------------------------------------------------------
(* Claims about the Matching Engine *)

UpsertStep == mpc = "loop" /\ mpc' = "returned"
SurvivingPairs == {Pair(m) : m \in all_matches}

\* C12: bulk_upsert_matches gives a new row the status PENDING and, on a row
\* that exists, changes only the five scores and updatedAt: status,
\* createdAt and the other columns stay, also after a downstream workflow
\* changed the status.
C12_UpsertKeepsStatus ==
    [][UpsertStep =>
          /\ \A r \in Match : \E r2 \in Match' :
                /\ Pair(r2) = Pair(r)
                /\ r2.status = r.status /\ r2.createdAt = r.createdAt
                /\ r2.matchReason = r.matchReason /\ r2.reviewedAt = r.reviewedAt
                /\ ScoresOf({r2}) # ScoresOf({r}) => Pair(r) \in SurvivingPairs
          /\ \A r2 \in Match' :
                (\A r \in Match : Pair(r) # Pair(r2)) =>
                    r2.status = "PENDING" /\ r2.createdAt = mrun]_vars
C12_Witness ==
    \E r \in Match :
        /\ r.status = "REVIEWED" /\ r.createdAt <= r.reviewedAt
        /\ r.reviewedAt < r.updatedAt /\ r.updatedAt = mrun /\ mpc = "returned"

OnePerPair == \A r1, r2 \in Match : Pair(r1) = Pair(r2) => r1 = r2
SameData(a, b) ==
    a.cands = b.cands /\ a.positions = b.positions /\ a.min_score = b.min_score
TwoRuns == Len(history) = 2 /\ SameData(history[1], history[2])

C14_StaleRowsUntouched ==
    [][\A r \in Match :
          \/ r \in Match'
          \/ /\ UpsertStep /\ Pair(r) \in SurvivingPairs
             /\ \E r2 \in Match' : Pair(r2) = Pair(r)
          \/ /\ mpc' = mpc
             /\ [r EXCEPT !.status = "REVIEWED", !.reviewedAt = mrun] \in Match']_vars
C14_Witness ==
    /\ mpc = "returned" /\ mrun = 2 /\ all_matches # {}
    /\ \E r \in Match :
          /\ Pair(r) \notin SurvivingPairs /\ r.updatedAt = 1
          /\ r.positionId \in {m.positionId : m \in all_matches}

\* C15: an error raised while one position is processed leaves the matches
\* computed for the other positions of the call persisted.
C15_OtherPositionsPersisted ==
    (mpc = "raised" /\ mcause \in {"query", "cast"}) =>
        \A m \in all_matches :
            \E r \in Match : Pair(r) = Pair(m) /\ r.overallScore = m.overallScore
                             /\ r.updatedAt = mrun

\* C16: a position whose embedding is missing or is not a bracketed numeric
\* vector is processed without the vector operator, every candidate of it
\* gets the semantic score 50, and neither the position nor the run fails
\* because of the embedding.
C16_MalformedEmbeddingIsNeutral ==
    \A j \in DOMAIN plog :
        ~CastsToVector(positions[j].descriptionEmbedding) =>
            /\ ~plog[j].vector
            /\ plog[j].semantic \subseteq {NeutralScore}
            /\ ~(mcause = "cast" /\ j = Len(plog))

----------------------------------------------------------------------------
(* Claims about the sync DAG *)

----------------------------------------------------------------------------
(* Claims about the composite score *)

\* C21: the overall score of every scored row is the rounded weighted sum of
\* its four scores and an integer of 0..100, for every semantic value
\* (1 - cosineDistance) * 100 the query can return.
C21_OverallInRange ==
    Scored("overall") =>
        /\ 100 * sout[1] - 50 <=
              60 * SimilarityOf(ovIn.distance) + 24 * ovIn.skill + 12 * ovIn.experience
              + 4 * ovIn.location
        /\ 60 * SimilarityOf(ovIn.distance) + 24 * ovIn.skill + 12 * ovIn.experience
              + 4 * ovIn.location <= 100 * sout[1] + 50
        /\ sout[1] \in 0..100

----------------------------------------------------------------------------
(* Claims about _make_authenticated_request *)

RequestsOf(tr) == SelectSeq(tr, LAMBDA ev : ev.e = "request")
AuthsOf(tr, why) == SelectSeq(tr, LAMBDA ev : ev.e = "authenticate" /\ ev.why = why)
InCall == apc \notin {"off", "enter"}

\* C22: a call acquires a token exactly when none is held at entry; after a
\* first response 401 it calls authenticate once and, when that call returns,
\* sends the same request once more with the new token, in the same attempt
\* of the caller; a second 401 ends the call with an error and no further
\* authenticate.
C22_ReauthenticateOnce ==
    LET reqs == RequestsOf(ctrace)
        acquired == AuthsOf(ctrace, "none held")
        reauths == AuthsOf(ctrace, "401")
    IN  /\ Len(acquired) <= 1 /\ Len(reauths) <= 1 /\ Len(reqs) <= 2
        /\ InCall => (Len(acquired) = 1 <=> heldAtEntry = 0)
        /\ Len(reauths) = 1 => Len(reqs) >= 1 /\ reqs[1].status = 401
        /\ (Len(reqs) >= 1 /\ reqs[1].status = 401 /\ apc # "reauthenticate")
              => Len(reauths) = 1
        /\ (Len(reauths) = 1 /\ reauths[1].ok /\ apc # "resend") => Len(reqs) = 2
        /\ Len(reqs) = 2 =>
              /\ Len(reauths) = 1 /\ reauths[1].ok
              /\ reqs[2].req = reqs[1].req
              /\ reqs[2].attempt = reqs[1].attempt
              /\ reqs[2].token # reqs[1].token
              /\ reqs[2].token = bh_rest_token
              /\ ctrace[Len(ctrace)] = reqs[2]
              /\ reqs[2].status = 401 => apc \in {"error", "raised"}

C22_Witness ==
    LET reqs == RequestsOf(ctrace)
    IN  /\ apc = "error" /\ aattempt = 2 /\ heldAtEntry # 0
        /\ Len(reqs) = 2 /\ reqs[1].status = 401 /\ reqs[2].status = 401

----------------------------------------------------------------------------
(* Claims about the pagination loop *)

FetchRaised == xpc = "raised" /\ fetchLog # <<>> /\ fetchLog[Len(fetchLog)].n = -1
Tries(p) == Cardinality({i \in 1..Len(errorLog) : errorLog[i] = p})

\* C23: a failing page fetch is retried: when the failure of a page fetch
\* reaches the caller of the extraction or of the stream, the request for that
\* page has failed 3 times.
C23_PageTriedThreeTimes ==
    FetchRaised => Tries(fetchLog[Len(fetchLog)].page) = ExtractAttempts

----------------------------------------------------------------------------
(* Claims about _execute_batch_with_retry *)

LastOutcome(c) == IF chunkLog[c] = <<>> THEN "" ELSE chunkLog[c][Len(chunkLog[c])]

AttemptsBounded ==
    \A c \in Callers :
        /\ attempt[c] <= max_retries /\ Len(errors[c]) <= max_retries
        /\ \A i \in 1..(Len(errors[c]) - 1) : errors[c][i] \in RETRYABLE_ERRORS
        /\ pc[c] = "exec" =>
              /\ attempt[c] = Len(errors[c]) + 1
              /\ \A i \in 1..Len(errors[c]) : errors[c][i] \in RETRYABLE_ERRORS
        /\ pc[c] # "exec" /\ errors[c] # <<>> =>
              /\ LastOutcome(c) \in {"ok", "failed"}
              /\ LastOutcome(c) = "ok" =>
                    /\ Len(errors[c]) < max_retries
                    /\ errors[c][Len(errors[c])] \in RETRYABLE_ERRORS
              /\ LastOutcome(c) = "failed" =>
                    \/ Len(errors[c]) = max_retries
                    \/ errors[c][Len(errors[c])] \notin RETRYABLE_ERRORS

FailedAttemptRolledBack ==
    \A c \in Callers :
        Len(errors'[c]) > Len(errors[c]) =>
            /\ pending'[c] = pending[c]
            /\ \/ pc'[c] = "exec" /\ attempt'[c] = attempt[c] + 1
                  /\ errors'[c][Len(errors'[c])] \in RETRYABLE_ERRORS
               \/ pc'[c] # "exec" /\ chunkLog'[c] = Append(chunkLog[c], "failed")

----------------------------------------------------------------------------
(* Claims about the rows bulk_upsert skips *)

\* A required field of the row is missing or empty.
MissingRequired(row) == row.bullhornId = 0 \/ ~row.required
RowsOfChunk(c, k) == Range(ChunkIdx(df[c], batch_size[c], k))
InvalidOf(c, k) == {i \in RowsOfChunk(c, k) : MissingRequired(df[c][i])}
ValidOf(c, k) == RowsOfChunk(c, k) \ InvalidOf(c, k)
ChunksLogged(c, outcomes) == {k \in 1..Len(chunkLog[c]) : chunkLog[c][k] \in outcomes}
\* Rows the statements of the current call of c wrote.
WrittenBy(c) == {r \in pending[c] \cup table : <<r.data[1], r.data[2]>> = Who(c)}

\* C25: a row with a missing or empty required field is in no INSERT and is
\* counted once in skipped; the valid rows of its chunk are written and counted
\* as records all the same; a chunk with no valid row executes no statement.
C25_InvalidRowsSkipped ==
    \A c \in Callers :
        /\ \A r \in WrittenBy(c) : ~MissingRequired(df[c][r.data[3]])
        /\ pc[c] = "exec" => ValidOf(c, batch_num[c]) # {}
        /\ \A k \in ChunksLogged(c, {"ok", "failed", "empty"}) :
              chunkLog[c][k] = "empty" <=> ValidOf(c, k) = {}
        /\ pc[c] \in {"chunk", "exec", "commit", "returned"} =>
              result[c].skipped =
                  Cardinality(UNION {InvalidOf(c, k) : k \in 1..Len(chunkLog[c])})
        /\ pc[c] = "returned" =>
              /\ result[c].skipped =
                    Cardinality({i \in 1..Len(df[c]) : MissingRequired(df[c][i])})
              /\ result[c].inserted + result[c].updated =
                    Cardinality(UNION {ValidOf(c, k) : k \in ChunksLogged(c, {"ok"})})
              /\ result[c].failed =
                    Cardinality(UNION {ValidOf(c, k) : k \in ChunksLogged(c, {"failed"})})
              /\ \A k \in ChunksLogged(c, {"ok"}) : \A i \in ValidOf(c, k) : Persisted(c, i)

\* A chunk of a valid and an invalid row was written, a chunk of one invalid
\* row was skipped.
C25_Witness ==
    /\ pc[1] = "returned" /\ batch_size[1] = 2 /\ Len(df[1]) = 3
    /\ chunkLog[1] = <<"ok", "empty">>
    /\ Cardinality(InvalidOf(1, 1)) = 1 /\ Cardinality(ValidOf(1, 1)) = 1
    /\ result[1].skipped = 2 /\ result[1].inserted + result[1].updated = 1

\* Number of empty pages at the end of the requests of the running attempt.
TrailingEmpty(log) ==
    CHOOSE k \in 0..Len(log) :
        /\ \A i \in (Len(log) - k + 1)..Len(log) : log[i].n = 0
        /\ k = Len(log) \/ log[Len(log) - k].n # 0
LoopLeft == xpc \in {"returned", "logging"}

EmptyPagesCounted ==
    /\ TrailingEmpty(fetchLog) <= EmptyPagesLimit
    /\ xpc = "loop" =>
          /\ consecutive_empty_pages = TrailingEmpty(fetchLog)
          /\ consecutive_empty_pages < EmptyPagesLimit
    /\ TrailingEmpty(fetchLog) = EmptyPagesLimit =>
          /\ xpc # "loop"
          /\ ~IsStream(fn) => xpc = "returned" /\ xret = <<SegmentsOf(fetchLog)>>
    /\ LoopLeft /\ TrailingEmpty(fetchLog) > 0 => TrailingEmpty(fetchLog) = EmptyPagesLimit
    /\ LoopLeft /\ TrailingEmpty(fetchLog) = 0 =>
          \/ LimitReached(fn, max_records, total_fetched)
          \/ IsLastPage(fetchLog[Len(fetchLog)].n, page_size)

ThirdEmptyPageStops ==
    (fetchLog' # fetchLog /\ TrailingEmpty(fetchLog') = EmptyPagesLimit) => LoopLeft'

\* C26: the loop stops, without raising, at the third empty page in a row and
\* the extraction returns the records gathered so far; after one or two empty
\* pages a non-empty page sets the counter back to zero and the loop goes on
\* (unless the record limit or a partial page stops it).
C26_ThreeEmptyPagesStop == []EmptyPagesCounted /\ [][ThirdEmptyPageStops]_vars

\* A full page, then three empty pages.
C26_Witness ==
    /\ xpc = "returned" /\ fn = "extract_consultants_paginated" /\ page_size = SmallPage
    /\ xret = << <<<<start_page, SmallPage>>>> >>
    /\ Len(fetchLog) = 4 /\ TrailingEmpty(fetchLog) = 3

\* Two empty pages, a full page, and the loop is still running.
C26_WitnessReset ==
    /\ xpc = "loop" /\ Len(fetchLog) = 3 /\ consecutive_empty_pages = 0
    /\ fetchLog[1].n = 0 /\ fetchLog[2].n = 0 /\ fetchLog[3].n = page_size

LastFetch == fetchLog[Len(fetchLog)]

\* C27 as stated: the first page with fewer than page_size records, a page
\* with zero records included, is the last request of the loop.
C27_FirstShortPageStops ==
    \A i \in 1..Len(fetchLog) :
        fetchLog[i].n >= 0 /\ fetchLog[i].n < page_size => i = Len(fetchLog) /\ xpc # "loop"

\* C27: the first non-empty page with fewer than page_size records is the last
\* request of the loop; a full page below the record limit is followed by the
\* next page; an empty page is followed by the next page, too, unless it is
\* the third empty page in a row.
C27_FirstShortNonEmptyPageStops ==
    /\ \A i \in 1..Len(fetchLog) :
          fetchLog[i].n > 0 /\ fetchLog[i].n < page_size => i = Len(fetchLog) /\ xpc # "loop"
    /\ fetchLog # <<>> /\ xpc # "raised" =>
          /\ LastFetch.n = 0 /\ TrailingEmpty(fetchLog) < EmptyPagesLimit =>
                xpc = "loop" /\ page = LastFetch.page + 1
          /\ LastFetch.n = page_size /\ ~LimitReached(fn, max_records, total_fetched) =>
                xpc = "loop" /\ page = LastFetch.page + 1

\* A full page, an empty page, then a partial page that ends the loop.
C27_Witness ==
    /\ xpc = "returned" /\ Len(fetchLog) = 3
    /\ fetchLog[1].n = page_size /\ fetchLog[2].n = 0
    /\ fetchLog[3].n > 0 /\ fetchLog[3].n < page_size

\* Records returned by the requests of the running attempt before request i.
FetchedBefore(i) == TotalOf(SegmentsOf(SubSeq(fetchLog, 1, i - 1)))

\* C28: with a record limit configured, every request of the loop was issued
\* while the records fetched so far were fewer than the limit.
C28_NoFetchPastLimit ==
    max_records > 0 => \A i \in 1..Len(fetchLog) : FetchedBefore(i) < max_records

----------------------------------------------------------------------------
(* Claims about the transformer *)

\* The natural key transform gives a raw record.
KeyOfRaw(raw) == IF raw.bullhornId # "" THEN raw.bullhornId ELSE StrOfId(raw.id)
Occurrences(key) == {i \in DOMAIN raw_page : KeyOfRaw(raw_page[i]) = key}
LastOccurrence(key) == CHOOSE i \in Occurrences(key) : \A j \in Occurrences(key) : j <= i
Transformed == tdf # <<>>

\* C29: the frame returned for a page holds each natural key of the page
\* exactly once, no other key, and for each key the record of its last
\* occurrence in the page (so a record whose key occurs once is kept), the
\* kept records in page order.
C29_KeepsLastOccurrence ==
    Transformed =>
        LET out == tdf[1] IN
        /\ \A i, j \in DOMAIN out : out[i].bullhornId = out[j].bullhornId => i = j
        /\ {out[i].bullhornId : i \in DOMAIN out}
              = {KeyOfRaw(raw_page[i]) : i \in DOMAIN raw_page}
        /\ \A i \in DOMAIN out :
              LET src == raw_page[LastOccurrence(out[i].bullhornId)]
              IN out[i].phone = src.phone /\ out[i].email = CleanEmail(src.email)
        /\ \A i, j \in DOMAIN out :
              i < j => LastOccurrence(out[i].bullhornId) < LastOccurrence(out[j].bullhornId)

\* The key "7" occurs first with an id only, then again as bullhornId, with
\* another record of key "8" in between; the later record of "7" is kept.
C29_Witness ==
    /\ Transformed /\ Len(raw_page) = 3
    /\ raw_page[1].bullhornId = "" /\ raw_page[1].id = 7 /\ raw_page[1].phone = 1
    /\ KeyOfRaw(raw_page[2]) = "8"
    /\ raw_page[3].bullhornId = "7" /\ raw_page[3].phone = 2
    /\ Len(tdf[1]) = 2 /\ tdf[1][2].bullhornId = "7" /\ tdf[1][2].phone = 2

----------------------------------------------------------------------------
(* Claims about _extract_content *)

Envelopes == {"data.content", "content", "list"}
\* Responses that carry an array under 'content' next to a 'data' key.
BothKeys == {"data{}+content", "data=null+content"}

\* C30: _extract_content returns the array of each of the three envelopes and
\* the empty list for every other response (for a response with a 'data' key
\* next to a 'content' array, either of the two).
C30_ContentOrEmptyList ==
    ecOut # <<>> =>
        CASE ecIn.shape \in Envelopes -> ecOut[1] = PyList(ecIn.n)
          [] ecIn.shape \in BothKeys -> ecOut[1] \in {PyList(ecIn.n), PyList(0)}
          [] OTHER -> ecOut[1] = PyList(0)

----------------------------------------------------------------------------
(* Claims about the worker pool and the batches of a backfill run *)

\* Position of a batch in its one pass through a worker and the main thread.
BatchRank(st) ==
    CASE st = "queued" -> 0
      [] st = "texts" -> 1
      [] st = "embedded" -> 2
      [] st \in {"done", "raised"} -> 3
      [] st = "collected" -> 4

\* The batches that hold the record.
BatchesOf(id) == {b \in Batches : id \in Range(CurBatch(b))}

PoolBoundedAndPartitioned ==
    /\ bpc = "pool" => Cardinality(Busy) <= max_workers
    /\ bpc \in {"pool", "returned"} =>
        /\ \A id \in Range(selected) : Cardinality(BatchesOf(id)) = 1
        /\ \A b \in Batches :
            /\ Len(CurBatch(b)) \in 1..bf_batch_size
            /\ Range(CurBatch(b)) \subseteq Range(selected)
        /\ requests <= Cardinality(Batches) /\ writes <= requests
    /\ bpc = "returned" => \A b \in Batches : wstate[b] = "collected"

\* While the pool runs no batch goes back to an earlier step.
BatchNeverRestarted ==
    bpc = "pool" =>
        /\ DOMAIN wstate' = DOMAIN wstate
        /\ \A b \in Batches : BatchRank(wstate'[b]) >= BatchRank(wstate[b])

\* C31: during a backfill run at most max_workers batches are in a worker,
\* every selected record is in exactly one batch of at most batch_size
\* records, and every batch goes through a worker once: it never returns to
\* an earlier step and at the return every batch has been collected.
C31_BoundedPoolEachBatchOnce ==
    []PoolBoundedAndPartitioned /\ [][BatchNeverRestarted]_vars

\* Every worker is busy while a further batch waits in the queue.
C31_Witness ==
    /\ bpc = "pool" /\ Cardinality(Busy) = max_workers
    /\ \E b \in Batches : wstate[b] = "queued"
    /\ \E b \in Batches : wstate[b] = "collected"

----------------------------------------------------------------------------
(* Claims about the default experience score *)

\* The target level is missing, empty or not a name of EXPERIENCE_LEVELS.
UnknownTargetLevel == Upper(exIn.target) \notin DOMAIN EXPERIENCE_LEVELS
\* estimate_years_experience returned None.
UnknownExperience == exIn.months = 0

\* C32: the experience score is 50 whenever the position's target level is
\* unknown (missing, empty or not a known level name) or the candidate's
\* experience is absent or unparseable.
C32_UnknownScoresFifty ==
    Scored("experience") /\ (UnknownTargetLevel \/ UnknownExperience) => sout = <<50>>

\* The parts of C32 the code keeps: no target level, or no experience.
C32_MissingScoresFifty ==
    Scored("experience") /\ (exIn.target = "" \/ UnknownExperience) => sout = <<50>>

----------------------------------------------------------------------------
(* Claims about the matches kept for a position *)

TopCalled == tmOut # <<>>
Kept == {tmOut[1][i].candidateId : i \in DOMAIN tmOut[1]}
\* The fetched rows that reach min_score.
Eligible == {i \in DOMAIN tmIn.df : tmIn.df[i].overall_score >= tmIn.min_score}

\* C33: the matches returned for a position all have overall >= min_score,
\* number min(max_matches, rows reaching min_score), refer to distinct
\* fetched candidates with their own scores, and no row reaching min_score
\* that was left out has a higher overall than a row that was kept.
C33_TopMatchesKept ==
    TopCalled =>
        /\ \A i \in DOMAIN tmOut[1] : tmOut[1][i].overallScore >= tmIn.min_score
        /\ Len(tmOut[1]) = Min(tmIn.max_matches, Cardinality(Eligible))
        /\ \A i, j \in DOMAIN tmOut[1] :
                tmOut[1][i].candidateId = tmOut[1][j].candidateId => i = j
        /\ \A i \in DOMAIN tmOut[1] : \E k \in Eligible :
                /\ tmIn.df[k].id = tmOut[1][i].candidateId
                /\ tmIn.df[k].overall_score = tmOut[1][i].overallScore
        /\ \A k \in Eligible : tmIn.df[k].id \notin Kept =>
                \A i \in DOMAIN tmOut[1] : tmIn.df[k].overall_score <= tmOut[1][i].overallScore

\* More rows reach min_score than max_matches allows, a row below min_score
\* is dropped, and the best row is not the first of the frame.
C33_Witness ==
    /\ TopCalled /\ Cardinality(Eligible) > tmIn.max_matches
    /\ Cardinality(Eligible) < Len(tmIn.df)
    /\ tmIn.df[1].id \notin Kept /\ tmIn.df[1].overall_score >= tmIn.min_score

----------------------------------------------------------------------------
(* Claims about the termination of the pagination loops *)

\* What a source of total records returns for page p of the given size when
\* it serves its records in contiguous pages.
Served(total, p, size) == Min(size, Max(0, total - p * size))

\* Source sizes around the page boundaries.
SourceSizes(size) == {p * size + r : p \in 0..MaxPages, r \in PageLens(size) \ {size}}

\* Every request of the attempt was answered as a source of total records answers.
ServedBy(total) ==
    \A i \in DOMAIN fetchLog : fetchLog[i].n = Served(total, fetchLog[i].page, page_size)

\* C34: against a source of N records served in contiguous pages, an attempt
\* in which no fetch raised has made fewer than floor(N / page_size) + 3
\* requests while its loop is running, and never more than that many: the
\* loop is left at the latest by request number floor(N / page_size) + 3.
C34_LoopEndsWithinBound ==
    xpc \in {"loop", "logging", "returned"} =>
        \A total \in SourceSizes(page_size) : ServedBy(total) =>
            /\ Len(fetchLog) <= total \div page_size + EmptyPagesLimit
            /\ xpc = "loop" => Len(fetchLog) < total \div page_size + EmptyPagesLimit

\* A source holding exactly one full page: the full page and three empty
\* pages are requested, then the loop is left.
C34_Witness ==
    /\ xpc \in {"logging", "returned"} /\ ServedBy(page_size)
    /\ start_page = 0 /\ Len(fetchLog) = 1 + EmptyPagesLimit /\ fetchLog[1].n = page_size

\* A source holding a full page and a half: two requests.
C34_WitnessPartial ==
    /\ xpc \in {"logging", "returned"} /\ ServedBy(page_size + page_size \div 2)
    /\ start_page = 0 /\ Len(fetchLog) = 2

----------------------------------------------------------------------------
(* Claims about the transaction of a bulk_upsert call *)

\* The committed rows that carry a payload written by the current call of c.
DurableOf(c) == {r \in table : <<r.data[1], r.data[2]>> = Who(c)}
InTransaction(c) == pc[c] \in {"chunk", "exec", "commit"}

\* Until its commit, and after it raised, a call has no durable row.
NothingDurableBeforeCommit ==
    \A c \in Callers :
        /\ InTransaction(c) \/ pc[c] = "raised" => DurableOf(c) = {}
        /\ pc[c] = "raised" => pending[c] = {}

\* The committed table changes only in the step that ends a call normally,
\* and that step makes every row of the call's transaction durable.
OnlyTheFinalCommitWrites ==
    table' # table =>
        \E c \in Callers :
            /\ pc[c] = "commit" /\ pc'[c] = "returned"
            /\ pending[c] \subseteq table'
            /\ \A r \in table' : r \in pending[c] \/ r \in table

\* C35: all chunks of a call run in one transaction on the call's connection:
\* rows of released chunks become durable only at the one commit made when
\* the call finishes normally, and a call that raises (row mapping, final
\* commit) persists none of the rows its chunks wrote.
C35_OneTransactionPerCall ==
    []NothingDurableBeforeCommit /\ [][OnlyTheFinalCommitWrites]_vars

\* A row mapping raised after a chunk had been released: nothing of it is durable.
C35_Witness ==
    /\ pc[1] = "raised" /\ cause[1] = "mapping"
    /\ \E k \in 1..Len(chunkLog[1]) : chunkLog[1][k] = "ok"
    /\ DurableOf(1) = {}

\* The final commit failed after two released chunks.
C35_WitnessCommit ==
    /\ pc[1] = "raised" /\ cause[1] = "commit"
    /\ Len(chunkLog[1]) >= 2 /\ \A k \in 1..Len(chunkLog[1]) : chunkLog[1][k] = "ok"
    /\ DurableOf(1) = {}

----------------------------------------------------------------------------
(* Claims about the columns an upsert changes *)

\* The row of table' with the natural key of r.
SameKeyAfter(r) == {n \in sqTable' : n.bullhornId = r.bullhornId}
SqlUpsertStep == sqClock' = sqClock + 1

\* An upsert leaves every existing row in place with its id, createdAt and
\* vector column, and changes no column outside update_columns and updatedAt.
UpsertKeepsIdentityAndEmbedding ==
    SqlUpsertStep =>
        \A r \in sqTable : \E n \in SameKeyAfter(r) :
            /\ SameKeyAfter(r) = {n}
            /\ n.id = r.id /\ n.createdAt = r.createdAt
            /\ n[EmbeddingColumn(sqSchema)] = r[EmbeddingColumn(sqSchema)]
            /\ \A c \in DOMAIN r :
                n[c] # r[c] => c \in Range(sqSchema.update_columns) \cup {"updatedAt"}

\* C36: an upsert that hits an existing natural key leaves that row's id,
\* createdAt and embedding column unchanged and changes only the schema's
\* update_columns plus updatedAt.
C36_UpsertKeepsIdAndEmbedding == [][UpsertKeepsIdentityAndEmbedding]_vars

\* A row that was inserted, embedded and then re-synced with changed fields:
\* it has its first id and createdAt, its vector, and the new field values.
C36_Witness ==
    /\ sqClock >= 3
    /\ \E r \in sqTable :
        /\ r.id = Cuid(1) /\ r.createdAt = SqlTime(1)
        /\ r[EmbeddingColumn(sqSchema)] # SqlNull
        /\ r.updatedAt = SqlTime(2) /\ r.lastSyncedAt = SqlTime(2)
        /\ r.location = <<"field", 2>>

----------------------------------------------------------------------------
(* Claims about the candidates fetched for a position *)

\* The candidate has a skill whose canonical form is the canonical form of a
\* required or preferred skill of the position.
SharesCanonicalSkill ==
    \E k \in skIn.cand, j \in Range(skIn.req) \cup Range(skIn.pref) :
        canonicalize_skill(k) = canonicalize_skill(j)

\* C37: every ACTIVE candidate that shares at least one canonicalized skill
\* with the position (and so would get a non-zero skill score) is selected by
\* the candidate query of that position.
C37_SkillSharersAreFetched ==
    Scored("fetch") /\ SharesCanonicalSkill =>
        /\ score_candidate_skills(skIn.cand, skIn.req, skIn.pref) > 0
        /\ sout = <<1>>

\* What the query guarantees: a candidate holding one of the position's
\* skills exactly as the position spells it is selected.
C37_RawSkillSharersAreFetched ==
    Scored("fetch") /\ skIn.cand \cap (Range(skIn.req) \cup Range(skIn.pref)) # {} =>
        sout = <<1>>

----------------------------------------------------------------------------
(* Claims about the one write of find_matches *)

\* The rows the current run has written.
WrittenByRun == {r \in Match : r.updatedAt = mrun}
AllPositionsScored ==
    /\ Len(plog) = Len(positions)
    /\ \A j \in DOMAIN plog : plog[j].ok

\* While positions are being scored and after the run raised, the run has
\* written no row; after it returned, every surviving match is in Match.
NoneOrAllOfTheRun ==
    /\ mpc \in {"loop", "raised"} => WrittenByRun = {}
    /\ mpc = "returned" =>
        /\ \A m \in all_matches : \E r \in WrittenByRun :
                Pair(r) = Pair(m) /\ r.overallScore = m.overallScore
        /\ \A r \in WrittenByRun : Pair(r) \in SurvivingPairs

\* Match changes only in the step that follows the scoring of the last
\* position (or by a review between two runs).
WritesAfterLastPosition ==
    Match' # Match =>
        \/ mpc' = mpc /\ mpc # "loop"
        \/ /\ mpc = "loop" /\ mpc' = "returned"
           /\ ppos > Len(positions) /\ AllPositionsScored

\* C38: find_matches writes the Match rows of all positions in one
\* transaction after the last position has been scored: no row is written
\* before every position of the call has been scored, and either all
\* surviving rows of the call are persisted or none is.
C38_OneWriteAfterScoring ==
    []NoneOrAllOfTheRun /\ [][WritesAfterLastPosition]_vars

\* A run over two positions that returned with matches of both persisted.
C38_Witness ==
    /\ mpc = "returned" /\ Len(positions) = 2
    /\ \A j \in 1..2 : \E r \in WrittenByRun : r.positionId = j

\* The upsert raised with matches of a scored position in hand: none is in Match.
C38_WitnessNone ==
    /\ mpc = "raised" /\ mcause = "upsert" /\ all_matches # {} /\ WrittenByRun = {}

----------------------------------------------------------------------------
(* Claims about the write-back of a backfill batch *)

CountedProcessed(b) == wresult[b] # <<>> /\ wresult[b][1].processed > 0
CountedInErrors(b) == wresult[b] = <<>> \/ wresult[b][1].errors > 0
Changed == {id \in RecIds : vector'[id] # vector[id]}

\* After a run, a batch counted as processed has a vector on each of its
\* records, a batch counted in errors has none, and updated is the number of
\* selected records that got a vector.
BatchWrittenOrUntouched ==
    bpc = "returned" /\ selected # <<>> =>
        /\ \A b \in Batches :
            /\ CountedProcessed(b) \/ CountedInErrors(b)
            /\ CountedProcessed(b) =>
                /\ ~CountedInErrors(b)
                /\ \A id \in Range(CurBatch(b)) : vector[id] = 1
            /\ CountedInErrors(b) => \A id \in Range(CurBatch(b)) : vector[id] = 0
        /\ bret[1].updated = Cardinality({id \in Range(selected) : vector[id] = 1})

\* A step that changes a vector writes the vectors of one whole batch.
WholeBatchWritten ==
    Changed # {} =>
        \E b \in Batches : wstate[b] = "embedded" /\ Changed = Range(CurBatch(b))

\* C39: a batch is written atomically: after the run every record of a batch
\* counted as processed has a vector, no record of a batch counted in errors
\* had its vector changed, and the updated count returned is the number of
\* records whose vector was written.
C39_BatchWrittenAtomically ==
    []BatchWrittenOrUntouched /\ [][WholeBatchWritten]_vars

\* A run in which a batch of two records was written and another batch failed.
C39_Witness ==
    /\ bpc = "returned" /\ bret # <<>> /\ bret[1].updated = 2 /\ bret[1].errors > 0
    /\ \E b \in Batches : CountedProcessed(b) /\ Len(CurBatch(b)) = 2

----------------------------------------------------------------------------
(* Claims about total_batches *)

\* The chunks handled so far whose statement succeeded.
OkChunks(c) == {k \in 1..Len(chunkLog[c]) : chunkLog[c][k] = "ok"}
\* ceil(len(df) / batch_size)
CeilChunks(c) == (Len(df[c]) + batch_size[c] - 1) \div batch_size[c]

\* C40: total_batches counts the chunks whose INSERT succeeded: failed chunks
\* and chunks with only invalid rows are not counted, so the field of the
\* returned result is at most ceil(len(df) / batch_size), with equality
\* exactly when every chunk had a valid row and succeeded.
C40_TotalBatchesCountsOkChunks ==
    \A c \in Callers :
        /\ pc[c] \in {"chunk", "exec", "commit", "returned"} =>
            result[c].total_batches = Cardinality(OkChunks(c))
        /\ pc[c] = "returned" =>
            /\ result[c].total_batches <= CeilChunks(c)
            /\ result[c].total_batches = CeilChunks(c) <=>
                   /\ Len(chunkLog[c]) = CeilChunks(c)
                   /\ \A k \in 1..CeilChunks(c) :
                        /\ chunkLog[c][k] = "ok"
                        /\ \E i \in Range(ChunkIdx(df[c], batch_size[c], k)) :
                               ~MissingRequired(df[c][i])

\* Three chunks: one succeeded, one failed, one held only invalid rows.
C40_Witness ==
    /\ pc[1] = "returned" /\ result[1].total_batches = 1 /\ CeilChunks(1) = 3
    /\ \E k \in 1..3 : chunkLog[1][k] = "failed"
    /\ \E k \in 1..3 : chunkLog[1][k] = "empty"

====
